---------------------------- MODULE Spec2Model ----------------------------
(***************************************************************************)
(* A model of the window-management state machine of dwm (src/dwm.c):      *)
(* the client / monitor registry (client list, focus stack, selection),    *)
(* tags and views, fullscreen, geometry, and monitor reconciliation.       *)
(*                                                                         *)
(* The C pointer graph is kept as it is: every client carries its `next'   *)
(* and `selectionNext' links and its `monitor' back reference, every       *)
(* monitor its `clients', `stack' and `selectedClient' pointers.  NULL is  *)
(* 0.  Each C function is an operator from a program state (a record of    *)
(* the variables below) to a program state; each event handler is one      *)
(* action.                                                                 *)
(***************************************************************************)
EXTENDS Integers, Sequences, FiniteSets, TLC

(***************************************************************************)
(* Bounds of the model.                                                    *)
(***************************************************************************)
MaxClients == 3          \* windows that can be managed at the same time
MaxMons == 2             \* monitors the display can report
MaxSteps == 3            \* events handled after startup in one run
MaxTiled == 8            \* windows on the one monitor of the layout runs
MaxKeys == 10            \* key presses in one run of the key specification

(***************************************************************************)
(* Program constants (config.def.h) and the environment's fixed values.    *)
(***************************************************************************)
NTAGS == 9               \* LENGTH(tags)
borderpx == 1            \* border pixel of windows
snap == 32               \* snap pixel
barHeight == 20          \* font height + 2, fixed by setup()
ScreenW == 1000          \* width of one reported screen rectangle
ScreenH == 800           \* height of one reported screen rectangle

NULL == 0
Windows == 1..MaxClients
MonIds == 1..MaxMons

\* unsigned int bit masks are sets of bit indices: & is \cap, | is \cup
TAGMASK == 0..(NTAGS - 1)
AllBits == 0..31
Xor(a, b) == (a \ b) \cup (b \ a)

MAX(a, b) == IF a > b THEN a ELSE b
MIN(a, b) == IF a < b THEN a ELSE b

\* the layouts[] table: index -> arrange function
LayoutArrange == <<"dwindle", "tile", "NULL", "monocle">>
LayoutSymbol == << <<"D">>, <<"T">>, <<"F">>, <<"M">> >>
Layouts == 1..4

VARIABLES
  client,            \* Window -> Client record (alloc = FALSE: no Client exists)
  monitor,           \* MonId -> Monitor record (alloc = FALSE: no Monitor exists)
  monitors,          \* the monitor list, in list order (sequence of MonIds)
  selectedMonitor,   \* the globally selected monitor
  screenWidth,       \* X display screen geometry
  screenHeight,
  pointer,           \* root pointer position <<x, y>> (the X server's)
  drag,              \* the move / resize sub-loop's locals; mode "idle" outside it
  motionMon,         \* motionNotify's static Monitor *mon
  status,            \* "running"; "hung" when a handler loops forever;
                     \* "crashed" when a handler dereferences NULL
  budget,            \* events the run may still handle
  xerr,              \* the XErrorEvent handed to xerror and what became of it
  fsEntry            \* history: what a client looked like when it entered
                     \* fullscreen (phase "in"), kept for one step after it
                     \* has left ("left")

vars == <<client, monitor, monitors, selectedMonitor, screenWidth, screenHeight,
          pointer, drag, motionMon, status, budget, xerr, fsEntry>>

\* The program state as one value, threaded through the C functions.
State == [client |-> client, monitor |-> monitor, monitors |-> monitors,
          selectedMonitor |-> selectedMonitor, screenWidth |-> screenWidth,
          screenHeight |-> screenHeight, pointer |-> pointer, drag |-> drag,
          motionMon |-> motionMon, status |-> status]

NoEntry == [phase |-> "none", isFloating |-> FALSE, borderWidth |-> 0,
            x |-> 0, y |-> 0, w |-> 0, h |-> 0]

\* the history of fullscreen entries after a handler has turned the state into s
FsTrack(s) ==
  [c \in DOMAIN client |->
     IF ~s.client[c].alloc THEN NoEntry
     ELSE IF client[c].alloc /\ ~client[c].isFullscreen /\ s.client[c].isFullscreen
     THEN [phase |-> "in", isFloating |-> client[c].isFloating,
           borderWidth |-> client[c].borderWidth,
           x |-> client[c].x, y |-> client[c].y,
           w |-> client[c].w, h |-> client[c].h]
     ELSE IF client[c].isFullscreen /\ ~s.client[c].isFullscreen
             /\ fsEntry[c].phase = "in"
     THEN [fsEntry[c] EXCEPT !.phase = "left"]
     ELSE IF fsEntry[c].phase = "left" \/ ~s.client[c].isFullscreen THEN NoEntry
     ELSE fsEntry[c]]

Becomes(s) ==
  /\ client' = s.client
  /\ monitor' = s.monitor
  /\ monitors' = s.monitors
  /\ selectedMonitor' = s.selectedMonitor
  /\ screenWidth' = s.screenWidth
  /\ screenHeight' = s.screenHeight
  /\ pointer' = s.pointer
  /\ drag' = s.drag
  /\ motionMon' = s.motionMon
  /\ status' = s.status
  /\ budget' = budget - 1
  /\ xerr' = xerr
  /\ fsEntry' = FsTrack(s)

\* A Client that does not exist (before manage's ecalloc, after free).
NoClient ==
  [alloc |-> FALSE, x |-> 0, y |-> 0, w |-> 0, h |-> 0,
   oldx |-> 0, oldy |-> 0, oldw |-> 0, oldh |-> 0,
   basew |-> 0, baseh |-> 0, incw |-> 0, inch |-> 0,
   maxw |-> 0, maxh |-> 0, minw |-> 0, minh |-> 0,
   borderWidth |-> 0, oldBorderWidth |-> 0, tags |-> {},
   isFixed |-> FALSE, isFloating |-> FALSE, isUrgent |-> FALSE,
   neverFocus |-> FALSE, oldState |-> FALSE, isFullscreen |-> FALSE,
   next |-> NULL, selectionNext |-> NULL, monitor |-> NULL]

\* A Monitor that does not exist.
NoMonitor ==
  [alloc |-> FALSE, layoutSymbol |-> <<>>, masterFactor |-> 0, nMaster |-> 0,
   num |-> 0, by |-> 0,
   monitorX |-> 0, monitorY |-> 0, monitorWidth |-> 0, monitorHeight |-> 0,
   windowX |-> 0, windowY |-> 0, windowWidth |-> 0, windowHeight |-> 0,
   selectedTags |-> 0, selectedLayout |-> 0, tagSet |-> <<{}, {}>>,
   showBar |-> FALSE, topBar |-> FALSE,
   clients |-> NULL, selectedClient |-> NULL, stack |-> NULL,
   layouts |-> <<1, 1>>]


(***************************************************************************)
(* Macros.                                                                 *)
(***************************************************************************)
\* m->tagSet[m->selectedTags]
CurTags(s, m) == s.monitor[m].tagSet[s.monitor[m].selectedTags + 1]

ISVISIBLEONTAG(s, c, T) == (s.client[c].tags \cap T) # {}

ISVISIBLE(s, c) == ISVISIBLEONTAG(s, c, CurTags(s, s.client[c].monitor))

WIDTH(s, c) == s.client[c].w + 2 * s.client[c].borderWidth

HEIGHT(s, c) == s.client[c].h + 2 * s.client[c].borderWidth

\* m->layouts[m->selectedLayout]->arrange
Arrange(s, m) == LayoutArrange[s.monitor[m].layouts[s.monitor[m].selectedLayout + 1]]

Hang(s) == [s EXCEPT !.status = "hung"]

Crash(s) == [s EXCEPT !.status = "crashed"]

\* A loop over a linked list can take at most this many steps before it
\* revisits a node; a walk that needs more never ends.
Fuel == MAX(MaxClients, MaxTiled) + 1

(***************************************************************************)
(* The lists as the C loops see them: the nodes met from a head pointer by *)
(* following a link field until NULL (or until a node repeats).            *)
(***************************************************************************)
RECURSIVE Walk(_, _, _, _)
Walk(s, c, link, fuel) ==
  IF c = NULL \/ fuel = 0 THEN <<>>
  ELSE <<c>> \o Walk(s, IF link = "next" THEN s.client[c].next
                         ELSE s.client[c].selectionNext, link, fuel - 1)

\* for (c = m->clients; c; c = c->next)
ClientList(s, m) == Walk(s, s.monitor[m].clients, "next", Fuel)

\* for (c = m->stack; c; c = c->selectionNext)
StackList(s, m) == Walk(s, s.monitor[m].stack, "selectionNext", Fuel)

Range(q) == {q[i] : i \in 1..Len(q)}

NoDup(q) == \A i, j \in 1..Len(q) : i # j => q[i] # q[j]

\* the walk from the head ends at NULL without meeting a node twice
Finite(q) == Len(q) < Fuel /\ NoDup(q)

(***************************************************************************)
(* Client & monitor registry primitives.                                   *)
(***************************************************************************)
attach(s, c) ==
  LET m == s.client[c].monitor IN
  [s EXCEPT !.client[c].next = s.monitor[m].clients,
            !.monitor[m].clients = c]

\* first client of c's monitor that is tiled and shares a tag with c;
\* NULL when there is none, -1 when the loop never ends
RECURSIVE nexttaggedFrom(_, _, _, _)
nexttaggedFrom(s, walked, c, fuel) ==
  IF walked = NULL THEN NULL
  ELSE IF ~(s.client[walked].isFloating
            \/ ~ISVISIBLEONTAG(s, walked, s.client[c].tags)) THEN walked
  ELSE IF fuel = 0 THEN -1
  ELSE nexttaggedFrom(s, s.client[walked].next, c, fuel - 1)

nexttagged(s, c) ==
  nexttaggedFrom(s, s.monitor[s.client[c].monitor].clients, c, Fuel)

\* an attachBelow() that always links c behind the first tagged tiled client
attachBelowTagged(s, c) ==
  LET at == nexttagged(s, c)
  IN IF at = -1 THEN Hang(s)
     ELSE IF at = NULL THEN attach(s, c)
     ELSE [s EXCEPT !.client[c].next = s.client[at].next, !.client[at].next = c]

attachBelow(s, c) ==
  LET m == s.client[c].monitor
      sel == s.monitor[m].selectedClient
      \* c->next = at->next; at->next = c
      after(at) == [s EXCEPT !.client[c].next = s.client[at].next,
                             !.client[at].next = c]
      orHead(at) == IF at = -1 THEN Hang(s)
                    ELSE IF at = NULL THEN attach(s, c)
                    ELSE after(at)
  IN IF sel = NULL \/ s.client[sel].isFloating
     THEN orHead(nexttagged(s, c))
     ELSE after(sel)

attachStack(s, c) ==
  LET m == s.client[c].monitor IN
  [s EXCEPT !.client[c].selectionNext = s.monitor[m].stack,
            !.monitor[m].stack = c]

\* for (tc = &head; *tc && *tc != c; tc = &(*tc)->next); *tc = c->next;
\* p is the client whose next field tc points at
RECURSIVE detachFrom(_, _, _, _)
detachFrom(s, p, c, fuel) ==
  LET n == s.client[p].next IN
  IF n = NULL \/ n = c THEN [s EXCEPT !.client[p].next = s.client[c].next]
  ELSE IF fuel = 0 THEN Hang(s)
  ELSE detachFrom(s, n, c, fuel - 1)

detach(s, c) ==
  LET m == s.client[c].monitor
      head == s.monitor[m].clients
  IN IF head = NULL \/ head = c
     THEN [s EXCEPT !.monitor[m].clients = s.client[c].next]
     ELSE detachFrom(s, head, c, Fuel)

RECURSIVE detachStackFrom(_, _, _, _)
detachStackFrom(s, p, c, fuel) ==
  LET n == s.client[p].selectionNext IN
  IF n = NULL \/ n = c
  THEN [s EXCEPT !.client[p].selectionNext = s.client[c].selectionNext]
  ELSE IF fuel = 0 THEN Hang(s)
  ELSE detachStackFrom(s, n, c, fuel - 1)

\* for (t = from; t && !ISVISIBLE(t); t = t->selectionNext)
RECURSIVE firstVisible(_, _, _)
firstVisible(s, t, fuel) ==
  IF t = NULL THEN NULL
  ELSE IF ISVISIBLE(s, t) THEN t
  ELSE IF fuel = 0 THEN NULL
  ELSE firstVisible(s, s.client[t].selectionNext, fuel - 1)

\* a detachStack() that reselects the head of the stack, visible or not
detachStackHead(s, c) ==
  LET m == s.client[c].monitor
      head == s.monitor[m].stack
      reselect(s1) ==
        IF c = s1.monitor[m].selectedClient
        THEN [s1 EXCEPT !.monitor[m].selectedClient = s1.monitor[m].stack]
        ELSE s1
  IN reselect(IF head = NULL \/ head = c
              THEN [s EXCEPT !.monitor[m].stack = s.client[c].selectionNext]
              ELSE detachStackFrom(s, head, c, Fuel))

detachStack(s, c) ==
  LET m == s.client[c].monitor
      head == s.monitor[m].stack
      reselect(s1) ==
        IF c = s1.monitor[m].selectedClient
        THEN [s1 EXCEPT !.monitor[m].selectedClient =
                           firstVisible(s1, s1.monitor[m].stack, Fuel)]
        ELSE s1
  IN reselect(IF head = NULL \/ head = c
              THEN [s EXCEPT !.monitor[m].stack = s.client[c].selectionNext]
              ELSE detachStackFrom(s, head, c, Fuel))

\* for (; c && (c->isFloating || !ISVISIBLE(c)); c = c->next)
RECURSIVE nexttiledFrom(_, _, _)
nexttiledFrom(s, c, fuel) ==
  IF c = NULL THEN NULL
  ELSE IF ~(s.client[c].isFloating \/ ~ISVISIBLE(s, c)) THEN c
  ELSE IF fuel = 0 THEN NULL
  ELSE nexttiledFrom(s, s.client[c].next, fuel - 1)

nexttiled(s, c) == nexttiledFrom(s, c, Fuel)


(***************************************************************************)
(* Geometry / size hints.  C int division and remainder truncate toward    *)
(* zero.  Size hints never carry PAspect in the modelled inputs, so        *)
(* mina = maxa = 0 and the aspect branch of applysizehints is not taken.   *)
(* A float is kept as the integer it is a multiple of 2^-28 by, which is    *)
(* exact for the single-precision values between 2^-5 and 1 that the       *)
(* master factor takes; sums and products round as IEEE singles do.        *)
(***************************************************************************)
CDiv(a, b) == IF a >= 0 THEN a \div b ELSE -((-a) \div b)

CRem(a, b) == a - b * CDiv(a, b)

FloatOne == 268435456    \* 1.0f
mfactStep == 13421773    \* 0.05f: the nearest single to 0.05
mfactMin == 13421773     \* the least single that is not < 0.05
mfactMax == 255013683    \* the greatest multiple of 2^-28 that is not > 0.95

RECURSIVE Pow2Floor(_)
Pow2Floor(w) == IF w < 2 THEN 1 ELSE 2 * Pow2Floor(w \div 2)

\* round n to a single (24 significant bits), ties to even
FloatRound(n) ==
  LET pick(u) ==
        LET lo == n - (n % u) IN
        IF 2 * (n % u) < u THEN lo
        ELSE IF 2 * (n % u) > u THEN lo + u
        ELSE IF (lo \div u) % 2 = 0 THEN lo ELSE lo + u
  IN pick(Pow2Floor(n \div 8388608))

\* (unsigned)(i * f) for an int i >= 0: the product is rounded to a single
\* and then truncated; the float's 28 bits are multiplied in two halves
FloatMulTrunc(i, f) ==
  LET q == i * (f \div 16384) + (i * (f % 16384)) \div 16384
      frac == (q % 16384) * 16384 + ((i * (f % 16384)) % 16384)
      up(whole) == IF 2 * frac >= 2 * FloatOne - 32 * Pow2Floor(whole)
                   THEN whole + 1 ELSE whole
  IN up(q \div 16384)

resizeHints == TRUE

applysizehints(s, c, x0, y0, w0, h0, interact) ==
  LET cl == s.client[c]
      m == s.monitor[cl.monitor]
      bw2 == 2 * cl.borderWidth
      \* one axis: v a position, d the size along it, full the outer size,
      \* scr the screen's extent, org and len the monitor's window area
      pullIn(v, full, scr, org, len) ==
        IF interact THEN (IF v > scr THEN scr - full ELSE v)
        ELSE (IF v >= org + len THEN org + len - full ELSE v)
      pushIn(v, d, org) ==
        IF interact THEN (IF v + d + bw2 < 0 THEN 0 ELSE v)
        ELSE (IF v + d + bw2 <= org THEN org ELSE v)
      atLeastBar(d) == IF d < barHeight THEN barHeight ELSE d
      hinted == resizeHints \/ cl.isFloating \/ Arrange(s, cl.monitor) = "NULL"
      \* base dimensions removed (before or after the aspect step: the same)
      stepped(d, inc) == IF inc # 0 THEN d - CRem(d, inc) ELSE d
      capped(d, max) == IF max # 0 THEN MIN(d, max) ELSE d
      hint(d, base, inc, min, max) ==
        IF hinted THEN capped(MAX(stepped(d - base, inc) + base, min), max) ELSE d
      result(x, y, w, h) ==
        [x |-> x, y |-> y, w |-> w, h |-> h,
         changed |-> (x # cl.x \/ y # cl.y \/ w # cl.w \/ h # cl.h)]
  IN result(pushIn(pullIn(x0, WIDTH(s, c), s.screenWidth, m.windowX, m.windowWidth),
                   MAX(1, w0), m.windowX),
            pushIn(pullIn(y0, HEIGHT(s, c), s.screenHeight, m.windowY, m.windowHeight),
                   MAX(1, h0), m.windowY),
            hint(atLeastBar(MAX(1, w0)), cl.basew, cl.incw, cl.minw, cl.maxw),
            hint(atLeastBar(MAX(1, h0)), cl.baseh, cl.inch, cl.minh, cl.maxh))

\* the only tiled client of its monitor, or any tiled client under monocle:
\* configured with border_width 0 and the border's pixels added to its size
noBorder(s, c) ==
  LET cl == s.client[c]
      m == cl.monitor
  IN /\ \/ (nexttiled(s, s.monitor[m].clients) = c
            /\ nexttiled(s, cl.next) = NULL)
        \/ Arrange(s, m) = "monocle"
     /\ ~cl.isFullscreen /\ ~cl.isFloating
     /\ Arrange(s, m) # "NULL"

resizeclient(s, c, x, y, w, h) ==
  LET cl == s.client[c]
      m == cl.monitor
      grow == noBorder(s, c)
      \* g: what the lone tiled client gains in place of its border
      set(g) == [s EXCEPT !.client[c].oldx = cl.x, !.client[c].x = x,
                          !.client[c].oldy = cl.y, !.client[c].y = y,
                          !.client[c].oldw = cl.w, !.client[c].w = w + g,
                          !.client[c].oldh = cl.h, !.client[c].h = h + g]
  IN set(IF grow THEN cl.borderWidth * 2 ELSE 0)

resize(s, c, x, y, w, h, interact) ==
  LET apply(r) == IF r.changed THEN resizeclient(s, c, r.x, r.y, r.w, r.h) ELSE s
  IN apply(applysizehints(s, c, x, y, w, h, interact))

\* showhide recurses down the stack; only visible clients change state
RECURSIVE showhide(_, _, _)
showhide(s, c, fuel) ==
  IF c = NULL \/ fuel = 0 THEN s
  ELSE LET cl == s.client[c] IN
       showhide(IF ISVISIBLE(s, c)
                   /\ (Arrange(s, cl.monitor) = "NULL" \/ cl.isFloating)
                   /\ ~cl.isFullscreen
                THEN resize(s, c, cl.x, cl.y, cl.w, cl.h, FALSE)
                ELSE s,
                cl.selectionNext, fuel - 1)

\* the clients a layout visits: nexttiled(m->clients), nexttiled(c->next), ...
RECURSIVE TiledFrom(_, _, _)
TiledFrom(s, c, fuel) ==
  LET t == nexttiled(s, c) IN
  IF t = NULL \/ fuel = 0 THEN <<>>
  ELSE <<t>> \o TiledFrom(s, s.client[t].next, fuel - 1)

Tiled(s, m) == TiledFrom(s, s.monitor[m].clients, Fuel)

\* a tile() that gives every client of a column the same share of the
\* window area's height
RECURSIVE tileLoopEven(_, _, _, _, _, _, _)
tileLoopEven(s, m, q, i, mw, my, ty) ==
  IF i >= Len(q) THEN s
  ELSE
    LET mo == s.monitor[m]
        n == Len(q)
        c == q[i + 1]
        bw == s.client[c].borderWidth
        master(s1) == tileLoopEven(s1, m, q, i + 1, mw, my + HEIGHT(s1, c), ty)
        stacked(s1) == tileLoopEven(s1, m, q, i + 1, mw, my, ty + HEIGHT(s1, c))
    IN IF i < mo.nMaster
       THEN master(resize(s, c, mo.windowX, mo.windowY + my, mw - 2 * bw,
                          mo.windowHeight \div MIN(n, mo.nMaster) - 2 * bw,
                          FALSE))
       ELSE stacked(resize(s, c, mo.windowX + mw, mo.windowY + ty,
                           mo.windowWidth - mw - 2 * bw,
                           mo.windowHeight \div (n - MIN(n, mo.nMaster)) - 2 * bw,
                           FALSE))

RECURSIVE tileLoop(_, _, _, _, _, _, _)
tileLoop(s, m, q, i, mw, my, ty) ==
  IF i >= Len(q) THEN s
  ELSE
    LET mo == s.monitor[m]
        n == Len(q)
        c == q[i + 1]
        bw == s.client[c].borderWidth
        \* y += HEIGHT(c) while it stays inside the window area
        below(y, s1) == IF y + HEIGHT(s1, c) < mo.windowHeight
                        THEN y + HEIGHT(s1, c) ELSE y
        master(s1) == tileLoop(s1, m, q, i + 1, mw, below(my, s1), ty)
        stacked(s1) == tileLoop(s1, m, q, i + 1, mw, my, below(ty, s1))
    IN IF i < mo.nMaster
       THEN master(resize(s, c, mo.windowX, mo.windowY + my, mw - 2 * bw,
                          (mo.windowHeight - my) \div (MIN(n, mo.nMaster) - i)
                            - 2 * bw,
                          FALSE))
       ELSE stacked(resize(s, c, mo.windowX + mw, mo.windowY + ty,
                           mo.windowWidth - mw - 2 * bw,
                           (mo.windowHeight - ty) \div (n - i) - 2 * bw,
                           FALSE))

\* a tile() whose master column takes the master fraction of what the
\* stack column should get
tileNarrowMaster(s, m) ==
  LET mo == s.monitor[m]
      mw(n) == IF n > mo.nMaster
               THEN (IF mo.nMaster # 0
                     THEN FloatMulTrunc(mo.windowWidth, mo.masterFactor) \div 2
                     ELSE 0)
               ELSE mo.windowWidth
      lay(q) == IF Len(q) = 0 THEN s ELSE tileLoop(s, m, q, 0, mw(Len(q)), 0, 0)
  IN lay(Tiled(s, m))

tile(s, m) ==
  LET mo == s.monitor[m]
      mw(n) == IF n > mo.nMaster
               THEN (IF mo.nMaster # 0
                     THEN FloatMulTrunc(mo.windowWidth, mo.masterFactor) ELSE 0)
               ELSE mo.windowWidth
      lay(q) == IF Len(q) = 0 THEN s ELSE tileLoop(s, m, q, 0, mw(Len(q)), 0, 0)
  IN lay(Tiled(s, m))

\* a dwindle() whose first split is at half the width, like the later ones
RECURSIVE dwindleLoopHalf(_, _, _, _, _, _, _, _, _)
dwindleLoopHalf(s, m, q, k, i, nx, ny, nw, nh) ==
  IF k > Len(q) THEN s
  ELSE
    LET mo == s.monitor[m]
        n == Len(q)
        c == q[k]
        bw == s.client[c].borderWidth
        split == \/ (i % 2 = 1 /\ nh \div 2 > 2 * bw)
                 \/ (i % 2 = 0 /\ nw \div 2 > 2 * bw)
        nh1 == IF i < n - 1 /\ i % 2 = 1 THEN nh \div 2 ELSE nh
        nw1 == IF i < n - 1 /\ i % 2 = 0 THEN nw \div 2 ELSE nw
        ny1 == IF i % 4 = 0 \/ i % 4 = 2 THEN ny + nh1 ELSE ny
        nx1 == IF i % 4 = 1 \/ i % 4 = 3 THEN nx + nw1 ELSE nx
        nw2 == IF i = 1 THEN mo.windowWidth - nw1 ELSE nw1
        ny2 == IF i = 0 THEN mo.windowY ELSE ny1
        i3 == IF split THEN i + 1 ELSE i
        nx3 == IF split THEN nx1 ELSE nx
        ny3 == IF split THEN ny2 ELSE ny
        nw3 == IF split THEN nw2 ELSE nw
        nh3 == IF split THEN nh1 ELSE nh
        s1 == resize(s, c, nx3, ny3, nw3 - 2 * bw, nh3 - 2 * bw, FALSE)
    IN dwindleLoopHalf(s1, m, q, k + 1, i3, nx3, ny3, nw3, nh3)

\* k indexes the tiled clients, i counts the splits made so far
RECURSIVE dwindleLoop(_, _, _, _, _, _, _, _, _)
dwindleLoop(s, m, q, k, i, nx, ny, nw, nh) ==
  IF k > Len(q) THEN s
  ELSE
    LET mo == s.monitor[m]
        n == Len(q)
        c == q[k]
        bw == s.client[c].borderWidth
        split == \/ (i % 2 = 1 /\ nh \div 2 > 2 * bw)
                 \/ (i % 2 = 0 /\ nw \div 2 > 2 * bw)
        nh1 == IF i < n - 1 /\ i % 2 = 1 THEN nh \div 2 ELSE nh
        nw1 == IF i < n - 1 /\ i % 2 = 0 THEN nw \div 2 ELSE nw
        ny1 == IF i % 4 = 0 \/ i % 4 = 2 THEN ny + nh1 ELSE ny
        nx1 == IF i % 4 = 1 \/ i % 4 = 3 THEN nx + nw1 ELSE nx
        nw2 == IF i = 0
               THEN (IF n # 1 THEN FloatMulTrunc(mo.windowWidth, mo.masterFactor)
                     ELSE nw1)
               ELSE IF i = 1 THEN mo.windowWidth - nw1 ELSE nw1
        ny2 == IF i = 0 THEN mo.windowY ELSE ny1
        i3 == IF split THEN i + 1 ELSE i
        nx3 == IF split THEN nx1 ELSE nx
        ny3 == IF split THEN ny2 ELSE ny
        nw3 == IF split THEN nw2 ELSE nw
        nh3 == IF split THEN nh1 ELSE nh
        s1 == resize(s, c, nx3, ny3, nw3 - 2 * bw, nh3 - 2 * bw, FALSE)
    IN dwindleLoop(s1, m, q, k + 1, i3, nx3, ny3, nw3, nh3)

dwindle(s, m) ==
  LET mo == s.monitor[m]
      lay(q) == IF Len(q) = 0 THEN s
                ELSE dwindleLoop(s, m, q, 1, 0, mo.windowX, 0,
                                 mo.windowWidth, mo.windowHeight)
  IN lay(Tiled(s, m))

RECURSIVE monocleLoop(_, _, _, _)
monocleLoop(s, m, q, k) ==
  IF k > Len(q) THEN s
  ELSE LET mo == s.monitor[m]
           c == q[k]
           bw == s.client[c].borderWidth
       IN monocleLoop(resize(s, c, mo.windowX, mo.windowY,
                             mo.windowWidth - 2 * bw, mo.windowHeight - 2 * bw,
                             FALSE),
                      m, q, k + 1)

monocle(s, m) ==
  LET cs == ClientList(s, m)
      lay(s1) == monocleLoop(s1, m, Tiled(s1, m), 1)
      count(n) == lay(IF n > 0
                      THEN [s EXCEPT !.monitor[m].layoutSymbol = <<"[", n, "]">>]
                      ELSE s)
  IN count(Cardinality({k \in 1..Len(cs) : ISVISIBLE(s, cs[k])}))

arrangemon(s, m) ==
  LET l == s.monitor[m].layouts[s.monitor[m].selectedLayout + 1]
      lay(s1) == CASE LayoutArrange[l] = "dwindle" -> dwindle(s1, m)
                   [] LayoutArrange[l] = "tile" -> tile(s1, m)
                   [] LayoutArrange[l] = "monocle" -> monocle(s1, m)
                   [] OTHER -> s1
  IN lay([s EXCEPT !.monitor[m].layoutSymbol = LayoutSymbol[l]])

RECURSIVE showhideAll(_, _, _)
showhideAll(s, ms, k) ==
  IF k > Len(ms) THEN s
  ELSE showhideAll(showhide(s, s.monitor[ms[k]].stack, Fuel), ms, k + 1)

RECURSIVE arrangemonAll(_, _, _)
arrangemonAll(s, ms, k) ==
  IF k > Len(ms) THEN s
  ELSE arrangemonAll(arrangemon(s, ms[k]), ms, k + 1)

\* restack only talks to the X server
arrange(s, m) ==
  LET ms == IF m # NULL THEN <<m>> ELSE s.monitors IN
  IF s.status # "running" THEN s
  ELSE arrangemonAll(showhideAll(s, ms, 1), ms, 1)


(***************************************************************************)
(* Focus & stack manager.  unfocus, grabButtons and setFocus only talk to  *)
(* the X server.                                                           *)
(***************************************************************************)
seturgent(s, c, urg) == [s EXCEPT !.client[c].isUrgent = urg]

\* the fallback taken from the client list instead of the stack
focusTargetByList(s, c) ==
  IF c = NULL \/ ~ISVISIBLE(s, c)
  THEN LET q == ClientList(s, s.selectedMonitor)
           vis == {k \in 1..Len(q) : ISVISIBLE(s, q[k])}
       IN IF vis = {} THEN NULL ELSE q[CHOOSE k \in vis : \A j \in vis : k <= j]
  ELSE c

\* the client focus() resolves its argument to
focusTarget(s, c) ==
  IF c = NULL \/ ~ISVISIBLE(s, c)
  THEN firstVisible(s, s.monitor[s.selectedMonitor].stack, Fuel)
  ELSE c

\* drawBar walks the client list of every monitor to count the visible
\* clients; the walk of a list that loops back never ends
drawBars(s) ==
  IF \E i \in 1..Len(s.monitors) : ~Finite(ClientList(s, s.monitors[i]))
  THEN Hang(s) ELSE s

\* focus that leaves the urgent flag alone
focusKeepUrgent(s, c0) ==
  LET select(s3, c) ==
        drawBars([s3 EXCEPT !.monitor[s3.selectedMonitor].selectedClient = c])
      raise(s2, c) == select(attachStack(detachStack(s2, c), c), c)
      to(c) == IF c # NULL
               THEN raise(IF s.client[c].monitor # s.selectedMonitor
                          THEN [s EXCEPT !.selectedMonitor = s.client[c].monitor]
                          ELSE s, c)
               ELSE select(s, NULL)
  IN IF s.status # "running" THEN s ELSE to(focusTarget(s, c0))

focus(s, c0) ==
  LET select(s3, c) ==
        drawBars([s3 EXCEPT !.monitor[s3.selectedMonitor].selectedClient = c])
      raise(s2, c) == select(attachStack(detachStack(s2, c), c), c)
      calm(s1, c) ==
        raise(IF s1.client[c].isUrgent THEN seturgent(s1, c, FALSE) ELSE s1, c)
      to(c) == IF c # NULL
               THEN calm(IF s.client[c].monitor # s.selectedMonitor
                         THEN [s EXCEPT !.selectedMonitor = s.client[c].monitor]
                         ELSE s, c)
               ELSE select(s, NULL)
  IN IF s.status # "running" THEN s ELSE to(focusTarget(s, c0))

\* sendmon without the detach from the old monitor's client list
sendmonNoDetach(s, c, m) ==
  LET assign(s1) == [s1 EXCEPT !.client[c].monitor = m,
                               !.client[c].tags = CurTags(s1, m)]
  IN IF s.client[c].monitor = m THEN s
     ELSE arrange(focus(attachStack(attachBelow(assign(detachStack(s, c)), c), c),
                        NULL),
                  NULL)

sendmon(s, c, m) ==
  LET assign(s1) == [s1 EXCEPT !.client[c].monitor = m,
                               !.client[c].tags = CurTags(s1, m)]
  IN IF s.client[c].monitor = m THEN s
     ELSE arrange(focus(attachStack(attachBelow(assign(detachStack(detach(s, c), c)),
                                                c), c),
                        NULL),
                  NULL)

setfullscreen(s, c, fullscreen) ==
  LET cl == s.client[c]
      mo == s.monitor[cl.monitor]
  IN IF fullscreen /\ ~cl.isFullscreen
     THEN LET s1 == [s EXCEPT !.client[c].isFullscreen = TRUE,
                              !.client[c].oldState = cl.isFloating,
                              !.client[c].oldBorderWidth = cl.borderWidth,
                              !.client[c].borderWidth = 0,
                              !.client[c].isFloating = TRUE]
          IN resizeclient(s1, c, mo.monitorX, mo.monitorY,
                          mo.monitorWidth, mo.monitorHeight)
     ELSE IF ~fullscreen /\ cl.isFullscreen
     THEN LET s1 == [s EXCEPT !.client[c].isFullscreen = FALSE,
                              !.client[c].isFloating = cl.oldState,
                              !.client[c].borderWidth = cl.oldBorderWidth,
                              !.client[c].x = cl.oldx,
                              !.client[c].y = cl.oldy,
                              !.client[c].w = cl.oldw,
                              !.client[c].h = cl.oldh]
              s2 == resizeclient(s1, c, cl.oldx, cl.oldy, cl.oldw, cl.oldh)
          IN arrange(s2, cl.monitor)
     ELSE s

\* the monitor list: position of m, and the neighbour in direction dir
MonIndex(s, m) == CHOOSE i \in 1..Len(s.monitors) : s.monitors[i] = m

dirtomon(s, dir) ==
  LET i == MonIndex(s, s.selectedMonitor)
      n == Len(s.monitors)
  IN IF dir > 0
     THEN (IF i < n THEN s.monitors[i + 1] ELSE s.monitors[1])
     ELSE (IF i = 1 THEN s.monitors[n] ELSE s.monitors[i - 1])

(***************************************************************************)
(* Key and button functions.  sel is selectedMonitor->selectedClient.      *)
(***************************************************************************)
Sel(s) == s.monitor[s.selectedMonitor].selectedClient

\* a view() that overwrites the current tag set without changing slots
viewInPlace(s, ui) ==
  LET m == s.selectedMonitor IN
  IF (ui \cap TAGMASK) = CurTags(s, m) THEN s
  ELSE LET st == IF (ui \cap TAGMASK) # {} THEN s.monitor[m].selectedTags
                 ELSE 1 - s.monitor[m].selectedTags
           s1 == [s EXCEPT !.monitor[m].selectedTags = st]
           s2 == IF (ui \cap TAGMASK) # {}
                 THEN [s1 EXCEPT !.monitor[m].tagSet[st + 1] = ui \cap TAGMASK]
                 ELSE s1
       IN arrange(focus(s2, NULL), m)

view(s, ui) ==
  LET m == s.selectedMonitor IN
  IF (ui \cap TAGMASK) = CurTags(s, m) THEN s
  ELSE LET st == 1 - s.monitor[m].selectedTags
           s1 == [s EXCEPT !.monitor[m].selectedTags = st]
           s2 == IF (ui \cap TAGMASK) # {}
                 THEN [s1 EXCEPT !.monitor[m].tagSet[st + 1] = ui \cap TAGMASK]
                 ELSE s1
       IN arrange(focus(s2, NULL), m)

toggleview(s, ui) ==
  LET m == s.selectedMonitor
      newtagset == Xor(CurTags(s, m), ui \cap TAGMASK)
  IN IF newtagset # {}
     THEN LET s1 == [s EXCEPT !.monitor[m].tagSet[s.monitor[m].selectedTags + 1]
                                 = newtagset]
          IN arrange(focus(s1, NULL), m)
     ELSE s

\* tag without the & TAGMASK
tagUnmasked(s, ui) ==
  IF Sel(s) # NULL /\ ui # {}
  THEN LET s1 == [s EXCEPT !.client[Sel(s)].tags = ui]
       IN arrange(focus(s1, NULL), s.selectedMonitor)
  ELSE s

\* a tag() without focus(NULL)
tagNoFocus(s, ui) ==
  IF Sel(s) # NULL /\ (ui \cap TAGMASK) # {}
  THEN arrange([s EXCEPT !.client[Sel(s)].tags = ui \cap TAGMASK], s.selectedMonitor)
  ELSE s

tag(s, ui) ==
  IF Sel(s) # NULL /\ (ui \cap TAGMASK) # {}
  THEN LET s1 == [s EXCEPT !.client[Sel(s)].tags = ui \cap TAGMASK]
       IN arrange(focus(s1, NULL), s.selectedMonitor)
  ELSE s

\* toggletag without the test for an empty result
toggletagUnchecked(s, ui) ==
  IF Sel(s) = NULL THEN s
  ELSE LET newtags == Xor(s.client[Sel(s)].tags, ui \cap TAGMASK)
           s1 == [s EXCEPT !.client[Sel(s)].tags = newtags]
       IN arrange(focus(s1, NULL), s.selectedMonitor)

toggletag(s, ui) ==
  IF Sel(s) = NULL THEN s
  ELSE LET newtags == Xor(s.client[Sel(s)].tags, ui \cap TAGMASK) IN
       IF newtags # {}
       THEN LET s1 == [s EXCEPT !.client[Sel(s)].tags = newtags]
            IN arrange(focus(s1, NULL), s.selectedMonitor)
       ELSE s

tagmon(s, dir) ==
  IF Sel(s) = NULL \/ Len(s.monitors) < 2 THEN s
  ELSE sendmon(s, Sel(s), dirtomon(s, dir))

focusmon(s, dir) ==
  IF Len(s.monitors) < 2 THEN s
  ELSE LET m == dirtomon(s, dir) IN
       IF m = s.selectedMonitor THEN s
       ELSE focus([s EXCEPT !.selectedMonitor = m], NULL)

togglefloating(s) ==
  LET c == Sel(s) IN
  IF c = NULL THEN s
  ELSE IF s.client[c].isFullscreen THEN s
  ELSE LET s1 == [s EXCEPT !.client[c].isFloating =
                              ~s.client[c].isFloating \/ s.client[c].isFixed]
           cl == s1.client[c]
           s2 == IF cl.isFloating
                 THEN resize(s1, c, cl.x, cl.y, cl.w, cl.h, FALSE)
                 ELSE s1
       IN arrange(s2, s.selectedMonitor)

\* a pop() that leaves the selection where it was
popNoFocus(s, c) ==
  IF c = NULL THEN Crash(s)
  ELSE arrange(attach(detach(s, c), c), s.client[c].monitor)

pop(s, c) ==
  IF c = NULL THEN Crash(s)
  ELSE arrange(focus(attach(detach(s, c), c), c), s.client[c].monitor)

zoom(s) ==
  LET m == s.selectedMonitor
      sel == Sel(s)
      \* if (c == nexttiled(clients)) c = nexttiled(c->next), when c is not NULL
      c == IF sel = nexttiled(s, s.monitor[m].clients) /\ sel # NULL
           THEN nexttiled(s, s.client[sel].next)
           ELSE sel
  IN IF Arrange(s, m) = "NULL" \/ (sel # NULL /\ s.client[sel].isFloating) THEN s
     ELSE IF sel = nexttiled(s, s.monitor[m].clients) /\ c = NULL THEN s
     ELSE pop(s, c)

lockFullscreen == TRUE

\* a focusStack() whose forward search always restarts at the list head
focusStackTargetHead(s, dir) ==
  LET m == s.selectedMonitor
      q == ClientList(s, m)
      sel == Sel(s)
      vis == {k \in 1..Len(q) : ISVISIBLE(s, q[k])}
      at == {k \in 1..Len(q) : q[k] = sel}
      Min(S) == CHOOSE k \in S : \A j \in S : k <= j
      Max(S) == CHOOSE k \in S : \A j \in S : k >= j
  IN IF dir > 0
     THEN (IF vis # {} THEN q[Min(vis)] ELSE NULL)
     ELSE IF at = {} THEN -1
     ELSE LET k0 == Min(at)
              before == {k \in vis : k < k0}
              rest == {k \in vis : k >= k0}
          IN IF before # {} THEN q[Max(before)]
             ELSE IF rest # {} THEN q[Max(rest)] ELSE NULL

\* the client focusStack() picks; NULL when there is none, -1 when the
\* backward loop runs off the end of the list (i->next of NULL)
focusStackTarget(s, dir) ==
  LET m == s.selectedMonitor
      q == ClientList(s, m)
      sel == Sel(s)
      after == Walk(s, s.client[sel].next, "next", Fuel)
      visAfter == {k \in 1..Len(after) : ISVISIBLE(s, after[k])}
      vis == {k \in 1..Len(q) : ISVISIBLE(s, q[k])}
      at == {k \in 1..Len(q) : q[k] = sel}
      Min(S) == CHOOSE k \in S : \A j \in S : k <= j
      Max(S) == CHOOSE k \in S : \A j \in S : k >= j
  IN IF dir > 0
     THEN (IF visAfter # {} THEN after[Min(visAfter)]
           ELSE IF vis # {} THEN q[Min(vis)] ELSE NULL)
     ELSE IF at = {} THEN -1
     ELSE LET k0 == Min(at)
              before == {k \in vis : k < k0}
              rest == {k \in vis : k >= k0}
          IN IF before # {} THEN q[Max(before)]
             ELSE IF rest # {} THEN q[Max(rest)] ELSE NULL

focusStack(s, dir) ==
  LET to(c) == IF c = -1 THEN Crash(s)
               ELSE IF c # NULL THEN focus(s, c) ELSE s
  IN IF Sel(s) = NULL THEN s
     ELSE IF s.client[Sel(s)].isFullscreen /\ lockFullscreen THEN s
     ELSE to(focusStackTarget(s, dir))

\* a setlayout() that overwrites the active slot without changing slots
setlayoutInPlace(s, v) ==
  LET m == s.selectedMonitor
      mo == s.monitor[m]
      sl == IF v = NULL THEN 1 - mo.selectedLayout ELSE mo.selectedLayout
      show(s3) == IF Sel(s3) # NULL THEN arrange(s3, m) ELSE s3
      name(s2) == show([s2 EXCEPT !.monitor[m].layoutSymbol =
                                     LayoutSymbol[s2.monitor[m].layouts[sl + 1]]])
      set(s1) == name(IF v # NULL THEN [s1 EXCEPT !.monitor[m].layouts[sl + 1] = v]
                      ELSE s1)
  IN set([s EXCEPT !.monitor[m].selectedLayout = sl])

setlayout(s, v) ==
  LET m == s.selectedMonitor
      mo == s.monitor[m]
      sl == IF v = NULL \/ v # mo.layouts[mo.selectedLayout + 1]
            THEN 1 - mo.selectedLayout ELSE mo.selectedLayout
      show(s3) == IF Sel(s3) # NULL THEN arrange(s3, m) ELSE s3
      name(s2) == show([s2 EXCEPT !.monitor[m].layoutSymbol =
                                     LayoutSymbol[s2.monitor[m].layouts[sl + 1]]])
      set(s1) == name(IF v # NULL THEN [s1 EXCEPT !.monitor[m].layouts[sl + 1] = v]
                      ELSE s1)
  IN set([s EXCEPT !.monitor[m].selectedLayout = sl])

\* a setmfact() without the range test
setmfactUnchecked(s, delta) ==
  LET m == s.selectedMonitor
      to(f) == arrange([s EXCEPT !.monitor[m].masterFactor = f], m)
  IN IF Arrange(s, m) = "NULL" THEN s
     ELSE to(FloatRound(delta + s.monitor[m].masterFactor))

\* arg->f below 1.0 is relative; the key table only binds -0.05 and +0.05
setmfact(s, delta) ==
  LET m == s.selectedMonitor
      to(f) == IF f < mfactMin \/ f > mfactMax THEN s
               ELSE arrange([s EXCEPT !.monitor[m].masterFactor = f], m)
  IN IF Arrange(s, m) = "NULL" THEN s
     ELSE to(FloatRound(delta + s.monitor[m].masterFactor))

incnmaster(s, i) ==
  LET m == s.selectedMonitor IN
  arrange([s EXCEPT !.monitor[m].nMaster = MAX(s.monitor[m].nMaster + i, 0)], m)

updatebarpos(s, m) ==
  LET mo == s.monitor[m] IN
  IF mo.showBar
  THEN [s EXCEPT !.monitor[m].windowHeight = mo.monitorHeight - barHeight,
                 !.monitor[m].by = IF mo.topBar THEN mo.monitorY
                                   ELSE mo.monitorY + mo.monitorHeight - barHeight,
                 !.monitor[m].windowY = IF mo.topBar THEN mo.monitorY + barHeight
                                        ELSE mo.monitorY]
  ELSE [s EXCEPT !.monitor[m].windowY = mo.monitorY,
                 !.monitor[m].windowHeight = mo.monitorHeight,
                 !.monitor[m].by = -barHeight]

toggleBar(s) ==
  LET m == s.selectedMonitor
      s1 == [s EXCEPT !.monitor[m].showBar = ~s.monitor[m].showBar]
  IN arrange(updatebarpos(s1, m), m)


(***************************************************************************)
(* Client creation and destruction.                                        *)
(***************************************************************************)
\* rules[] of the configuration: Gimp floats, Firefox goes to tag 9
rules == << [tags |-> {}, isfloating |-> TRUE, monitor |-> -1],
            [tags |-> {8}, isfloating |-> FALSE, monitor |-> -1] >>

\* for (m = monitors; m && m->num != r->monitor; m = m->next)
MonByNum(s, num) ==
  LET hit == {i \in 1..Len(s.monitors) : s.monitor[s.monitors[i]].num = num}
  IN IF hit = {} THEN NULL
     ELSE s.monitors[CHOOSE i \in hit : \A j \in hit : i <= j]

RECURSIVE applyrulesLoop(_, _, _, _)
applyrulesLoop(s, c, matched, i) ==
  IF i > Len(rules) THEN s
  ELSE IF i \in matched
  THEN LET r == rules[i]
           m == MonByNum(s, r.monitor)
           s1 == [s EXCEPT !.client[c].isFloating = r.isfloating,
                           !.client[c].tags = s.client[c].tags \cup r.tags]
           s2 == IF m # NULL THEN [s1 EXCEPT !.client[c].monitor = m] ELSE s1
       IN applyrulesLoop(s2, c, matched, i + 1)
  ELSE applyrulesLoop(s, c, matched, i + 1)

\* matched: the indices of the rules whose class / instance / title match
applyrules(s, c, matched) ==
  LET mask(s2, t) ==
        [s2 EXCEPT !.client[c].tags =
                      IF t # {} THEN t ELSE CurTags(s2, s2.client[c].monitor)]
      done(s2) == mask(s2, s2.client[c].tags \cap TAGMASK)
  IN done(applyrulesLoop([s EXCEPT !.client[c].isFloating = FALSE,
                                   !.client[c].tags = {}],
                         c, matched, 1))

\* size: the WM_NORMAL_HINTS property (flags is {} when it cannot be read)
updatesizehints(s, c, size) ==
  LET base == "PBaseSize" \in size.flags
      min == "PMinSize" \in size.flags
      inc == "PResizeInc" \in size.flags
      max == "PMaxSize" \in size.flags
      basew == IF base THEN size.base_width ELSE IF min THEN size.min_width ELSE 0
      baseh == IF base THEN size.base_height ELSE IF min THEN size.min_height ELSE 0
      maxw == IF max THEN size.max_width ELSE 0
      maxh == IF max THEN size.max_height ELSE 0
      minw == IF min THEN size.min_width ELSE IF base THEN size.base_width ELSE 0
      minh == IF min THEN size.min_height ELSE IF base THEN size.base_height ELSE 0
  IN [s EXCEPT !.client[c].basew = basew, !.client[c].baseh = baseh,
               !.client[c].incw = IF inc THEN size.width_inc ELSE 0,
               !.client[c].inch = IF inc THEN size.height_inc ELSE 0,
               !.client[c].maxw = maxw, !.client[c].maxh = maxh,
               !.client[c].minw = minw, !.client[c].minh = minh,
               !.client[c].isFixed = (maxw # 0 /\ maxh # 0
                                       /\ maxw = minw /\ maxh = minh)]

\* state: _NET_WM_STATE is fullscreen; wtype: _NET_WM_WINDOW_TYPE is dialog
updatewindowtype(s, c, state, wtype) ==
  LET dialog(s1) == IF wtype THEN [s1 EXCEPT !.client[c].isFloating = TRUE] ELSE s1
  IN dialog(IF state THEN setfullscreen(s, c, TRUE) ELSE s)

\* wmh: the WM_HINTS property; has = FALSE when XGetWMHints returns NULL
updatewmhints(s, c, wmh) ==
  IF ~wmh.has THEN s
  ELSE LET s1 == IF c = Sel(s) /\ wmh.urgent THEN s
                 ELSE [s EXCEPT !.client[c].isUrgent = wmh.urgent]
       IN [s1 EXCEPT !.client[c].neverFocus =
                        IF wmh.inputHint THEN ~wmh.input ELSE FALSE]

\* for all monitors, for all clients of the list: c->window == window
windowToClient(s, w) ==
  IF \E i \in 1..Len(s.monitors) : w \in Range(ClientList(s, s.monitors[i]))
  THEN w ELSE NULL

\* wa: the window's attributes; trans: WM_TRANSIENT_FOR (NULL for None);
\* p: what the window's properties say (rule matches, type, hints)
manage(s, w, wa, trans, p) ==
  LET c == w
      t == IF trans # NULL THEN windowToClient(s, trans) ELSE NULL
      s0 == [s EXCEPT !.client[c] =
               [NoClient EXCEPT !.alloc = TRUE,
                                !.x = wa.x, !.oldx = wa.x,
                                !.y = wa.y, !.oldy = wa.y,
                                !.w = wa.width, !.oldw = wa.width,
                                !.h = wa.height, !.oldh = wa.height,
                                !.oldBorderWidth = wa.border_width]]
      \* c->monitor->selectedClient = c; arrange(c->monitor); focus(NULL)
      show(s6) ==
        focus(arrange([s6 EXCEPT !.monitor[s6.client[c].monitor].selectedClient = c],
                      s6.client[c].monitor),
              NULL)
      \* if (!c->isFloating) c->isFloating = c->oldState = trans != None || c->isFixed
      link(s4) ==
        show(attachStack(attachBelow(
               IF ~s4.client[c].isFloating
               THEN [s4 EXCEPT !.client[c].isFloating =
                                  (trans # NULL \/ s4.client[c].isFixed),
                               !.client[c].oldState =
                                  (trans # NULL \/ s4.client[c].isFixed)]
               ELSE s4, c), c))
      props(s2) ==
        link(updatewmhints(updatesizehints(
               updatewindowtype(s2, c, p.fullscreen, p.dialog), c, p.size), c, p.wmh))
      \* the window is moved inside its monitor, below the bar
      at(s1, x, y) ==
        props([s1 EXCEPT !.client[c].x = x, !.client[c].y = y,
                         !.client[c].borderWidth = borderpx])
      belowBar(mo, x, y, mid) ==
        MAX(y, IF mo.by = mo.monitorY /\ mid >= mo.windowX
                  /\ mid < mo.windowX + mo.windowWidth
               THEN barHeight ELSE mo.monitorY)
      inside(s1, mo, x, y) ==
        at(s1, MAX(x, mo.monitorX),
           belowBar(mo, MAX(x, mo.monitorX), y,
                    MAX(x, mo.monitorX) + (s1.client[c].w \div 2)))
      place(s1, mo) ==
        inside(s1, mo,
               IF s1.client[c].x + WIDTH(s1, c) > mo.monitorX + mo.monitorWidth
               THEN mo.monitorX + mo.monitorWidth - WIDTH(s1, c)
               ELSE s1.client[c].x,
               IF s1.client[c].y + HEIGHT(s1, c) > mo.monitorY + mo.monitorHeight
               THEN mo.monitorY + mo.monitorHeight - HEIGHT(s1, c)
               ELSE s1.client[c].y)
      owned(s1) == place(s1, s1.monitor[s1.client[c].monitor])
  IN owned(IF t # NULL
           THEN [s0 EXCEPT !.client[c].monitor = s0.client[t].monitor,
                           !.client[c].tags = s0.client[t].tags]
           ELSE applyrules([s0 EXCEPT !.client[c].monitor = s0.selectedMonitor],
                           c, p.matched))

\* an unmanage() that takes the client out of the client list only
unmanageNoStack(s, c, destroyed) ==
  arrange(focus(detach(s, c), NULL), s.client[c].monitor)

unmanage(s, c, destroyed) ==
  LET m == s.client[c].monitor
      s1 == detachStack(detach(s, c), c)
      s2 == [s1 EXCEPT !.client[c] = NoClient]
  IN arrange(focus(s2, NULL), m)


\* c = windowToClient(ev->window), not NULL
destroynotify(s, c) == unmanage(s, c, TRUE)

\* if (ev->send_event) setclientstate(c, WithdrawnState); else unmanage(c, 0)
unmapnotify(s, c, send_event) ==
  IF send_event THEN s ELSE unmanage(s, c, FALSE)

(***************************************************************************)
(* Monitors and geometry reconciliation.                                   *)
(***************************************************************************)
INTERSECT(s, x, y, w, h, m) ==
  LET mo == s.monitor[m] IN
  MAX(0, MIN(x + w, mo.windowX + mo.windowWidth) - MAX(x, mo.windowX))
  * MAX(0, MIN(y + h, mo.windowY + mo.windowHeight) - MAX(y, mo.windowY))

RECURSIVE rectangleToMonitorLoop(_, _, _, _, _, _, _, _)
rectangleToMonitorLoop(s, x, y, w, h, k, r, area) ==
  IF k > Len(s.monitors) THEN r
  ELSE LET a == INTERSECT(s, x, y, w, h, s.monitors[k]) IN
       IF a > area
       THEN rectangleToMonitorLoop(s, x, y, w, h, k + 1, s.monitors[k], a)
       ELSE rectangleToMonitorLoop(s, x, y, w, h, k + 1, r, area)

rectangleToMonitor(s, x, y, w, h) ==
  rectangleToMonitorLoop(s, x, y, w, h, 1, s.selectedMonitor, 0)

\* windowToMonitor(root): the monitor under the root pointer
rootToMonitor(s) == rectangleToMonitor(s, s.pointer[1], s.pointer[2], 1, 1)

masterFactor == 134217728  \* 0.5f
nMaster == 1

createMonitor ==
  [NoMonitor EXCEPT !.alloc = TRUE, !.tagSet = <<{0}, {0}>>,
                    !.masterFactor = masterFactor, !.nMaster = nMaster,
                    !.showBar = FALSE, !.topBar = FALSE,
                    !.layouts = <<1, 2>>, !.layoutSymbol = LayoutSymbol[1]]

\* the identity of the Monitor ecalloc returns: the first free slot
FreeMon(s) == CHOOSE m \in MonIds : ~s.monitor[m].alloc
                                    /\ \A k \in MonIds : k < m => s.monitor[k].alloc

RECURSIVE appendMonitors(_, _)
appendMonitors(s, k) ==
  IF k = 0 THEN s
  ELSE LET m == FreeMon(s) IN
       appendMonitors([s EXCEPT !.monitor[m] = createMonitor,
                                !.monitors = Append(s.monitors, m)], k - 1)

\* monitors is the list head; cleanupmon unlinks mon and frees it
cleanupmon(s, mon) ==
  [s EXCEPT !.monitors = SelectSeq(s.monitors, LAMBDA m : m # mon),
            !.monitor[mon] = NoMonitor]

\* only unique geometries count as separate screens
\* an isuniquegeom() that looks at the last kept rectangle only
isuniquegeomLast(unique, n, info) ==
  \/ n = 0
  \/ unique[n].x_org # info.x_org \/ unique[n].y_org # info.y_org
  \/ unique[n].width # info.width \/ unique[n].height # info.height

RECURSIVE isuniquegeom(_, _, _)
isuniquegeom(unique, n, info) ==
  IF n = 0 THEN TRUE
  ELSE IF /\ unique[n].x_org = info.x_org /\ unique[n].y_org = info.y_org
          /\ unique[n].width = info.width /\ unique[n].height = info.height
  THEN FALSE
  ELSE isuniquegeom(unique, n - 1, info)

RECURSIVE uniqueGeoms(_, _, _)
uniqueGeoms(info, i, unique) ==
  IF i > Len(info) THEN unique
  ELSE IF isuniquegeom(unique, Len(unique), info[i])
  THEN uniqueGeoms(info, i + 1, Append(unique, info[i]))
  ELSE uniqueGeoms(info, i + 1, unique)

\* for (i = 0, m = monitors; i < nn && m; m = m->next, i++); r: <<state, dirty>>
RECURSIVE updateGeometryGrow(_, _, _, _)
updateGeometryGrow(r, unique, n, i) ==
  LET s == r[1] IN
  IF i >= Len(unique) \/ i >= Len(s.monitors) THEN r
  ELSE LET m == s.monitors[i + 1]
           mo == s.monitor[m]
           u == unique[i + 1]
       IN IF i >= n \/ u.x_org # mo.monitorX \/ u.y_org # mo.monitorY
             \/ u.width # mo.monitorWidth \/ u.height # mo.monitorHeight
          THEN LET s1 == [s EXCEPT !.monitor[m].num = i,
                                   !.monitor[m].monitorX = u.x_org,
                                   !.monitor[m].windowX = u.x_org,
                                   !.monitor[m].monitorY = u.y_org,
                                   !.monitor[m].windowY = u.y_org,
                                   !.monitor[m].monitorWidth = u.width,
                                   !.monitor[m].windowWidth = u.width,
                                   !.monitor[m].monitorHeight = u.height,
                                   !.monitor[m].windowHeight = u.height]
               IN updateGeometryGrow(<<updatebarpos(s1, m), TRUE>>, unique, n, i + 1)
          ELSE updateGeometryGrow(r, unique, n, i + 1)

\* while ((c = m->clients)) { ... }: move m's clients to the first monitor
RECURSIVE migrateClients(_, _, _)
migrateClients(r, m, fuel) ==
  LET s == r[1]
      c == s.monitor[m].clients
      stack(s5) == IF s5.status = "running" THEN attachStack(s5, c) ELSE s5
      move(s2) ==
        stack(attachBelow(attach([s2 EXCEPT !.client[c].monitor = s2.monitors[1]],
                                 c), c))
  IN IF c = NULL \/ s.status # "running" THEN r
     ELSE IF fuel = 0 THEN <<Hang(s), TRUE>>
     ELSE migrateClients(
            <<move(detachStack([s EXCEPT !.monitor[m].clients = s.client[c].next],
                               c)), TRUE>>,
            m, fuel - 1)

\* an updateGeometryShrink() without "if (m == selectedMonitor)
\* selectedMonitor = monitors"
RECURSIVE updateGeometryShrinkKeepSel(_, _)
updateGeometryShrinkKeepSel(r, k) ==
  LET m == r[1].monitors[Len(r[1].monitors)]
      drop(s1, dirty) ==
        IF s1.status # "running" THEN <<s1, dirty>>
        ELSE updateGeometryShrinkKeepSel(<<cleanupmon(s1, m), dirty>>, k - 1)
      moved(r1) == drop(r1[1], r1[2])
  IN IF k = 0 \/ r[1].status # "running" THEN r
     ELSE moved(migrateClients(r, m, Fuel))

\* for (i = nn; i < n; i++): remove the last monitor
RECURSIVE updateGeometryShrink(_, _)
updateGeometryShrink(r, k) ==
  LET m == r[1].monitors[Len(r[1].monitors)]
      \* if (m == selectedMonitor) selectedMonitor = monitors; cleanupmon(m)
      drop(s1, dirty) ==
        IF s1.status # "running" THEN <<s1, dirty>>
        ELSE updateGeometryShrink(
               <<cleanupmon(IF m = s1.selectedMonitor
                            THEN [s1 EXCEPT !.selectedMonitor = s1.monitors[1]]
                            ELSE s1, m), dirty>>,
               k - 1)
      moved(r1) == drop(r1[1], r1[2])
  IN IF k = 0 \/ r[1].status # "running" THEN r
     ELSE moved(migrateClients(r, m, Fuel))

\* info: what XineramaQueryScreens reports; the result is <<state, dirty>>
updateGeometry(s, info) ==
  LET n == Len(s.monitors)
      \* if (dirty) { selectedMonitor = monitors; selectedMonitor = windowToMonitor(root) }
      reselect(s1, dirty) ==
        IF dirty /\ s1.status = "running"
        THEN <<[s1 EXCEPT !.selectedMonitor =
                  rootToMonitor([s1 EXCEPT !.selectedMonitor = s1.monitors[1]])], TRUE>>
        ELSE <<s1, dirty>>
      done(r) == reselect(r[1], r[2])
      reconcile(unique, nn) ==
        done(IF n <= nn
             THEN updateGeometryGrow(<<appendMonitors(s, nn - n), FALSE>>, unique, n, 0)
             ELSE updateGeometryShrink(<<s, FALSE>>, n - nn))
      count(unique) == reconcile(unique, Len(unique))
  IN count(uniqueGeoms(info, 1, <<>>))

\* for (m = monitors; m; m = m->next) for (c = m->clients; c; c = c->next)
\*   if (c->isFullscreen) resizeclient(c, monitor geometry)
RECURSIVE resizeFullscreen(_, _, _, _)
resizeFullscreen(s, m, q, k) ==
  IF k > Len(q) THEN s
  ELSE LET c == q[k]
           mo == s.monitor[m]
           s1 == IF s.client[c].isFullscreen
                 THEN resizeclient(s, c, mo.monitorX, mo.monitorY,
                                   mo.monitorWidth, mo.monitorHeight)
                 ELSE s
       IN resizeFullscreen(s1, m, q, k + 1)

RECURSIVE resizeFullscreenAll(_, _)
resizeFullscreenAll(s, k) ==
  LET m == s.monitors[k]
      over(q) == IF Finite(q) THEN resizeFullscreenAll(resizeFullscreen(s, m, q, 1), k + 1)
                 ELSE Hang(resizeFullscreen(s, m, q, 1))
  IN IF k > Len(s.monitors) THEN s ELSE over(ClientList(s, m))

\* the ConfigureNotify handler for the root window
configurenotify(s, width, height, info) ==
  LET dirty == (s.screenWidth # width \/ s.screenHeight # height)
      redo(s3) == IF s3.status # "running" THEN s3
                  ELSE arrange(focus(s3, NULL), NULL)
      settle(s2, changed) ==
        IF s2.status # "running" THEN s2
        ELSE IF changed \/ dirty THEN redo(resizeFullscreenAll(s2, 1))
        ELSE s2
      updated(r) == settle(r[1], r[2])
  IN updated(updateGeometry([s EXCEPT !.screenWidth = width,
                                      !.screenHeight = height], info))


(***************************************************************************)
(* Event handlers, as functions of the state and the event's fields.       *)
(***************************************************************************)
clientmessageFullscreen(s, c, action) ==
  setfullscreen(s, c, action = 1 \/ (action = 2 /\ ~s.client[c].isFullscreen))

\* an activation request that focuses the client
clientmessageActiveFocus(s, c) ==
  IF c # Sel(s) THEN focus(s, c) ELSE s

clientmessageActive(s, c) ==
  IF c # Sel(s) /\ ~s.client[c].isUrgent THEN seturgent(s, c, TRUE) ELSE s

\* ev.mask: the value_mask bits that are set
\* a configurerequest() that starts a resize sub-loop on its client
configurerequestGrab(s, c, ev) ==
  [s EXCEPT !.drag = [mode |-> "resize", c |-> c,
                      ocx |-> s.client[c].x, ocy |-> s.client[c].y,
                      x |-> 0, y |-> 0, lasttime |-> 0]]

configurerequest(s, c, ev) ==
  LET cl == s.client[c]
      mo == s.monitor[cl.monitor]
      setx(s0) == IF "CWX" \in ev.mask
                  THEN [s0 EXCEPT !.client[c].oldx = cl.x,
                                  !.client[c].x = mo.monitorX + ev.x]
                  ELSE s0
      sety(s1) == IF "CWY" \in ev.mask
                  THEN [s1 EXCEPT !.client[c].oldy = cl.y,
                                  !.client[c].y = mo.monitorY + ev.y]
                  ELSE s1
      setw(s2) == IF "CWWidth" \in ev.mask
                  THEN [s2 EXCEPT !.client[c].oldw = cl.w, !.client[c].w = ev.width]
                  ELSE s2
      seth(s3) == IF "CWHeight" \in ev.mask
                  THEN [s3 EXCEPT !.client[c].oldh = cl.h, !.client[c].h = ev.height]
                  ELSE s3
      \* center in x / y direction
      centerx(s4) ==
        IF s4.client[c].x + s4.client[c].w > mo.monitorX + mo.monitorWidth
           /\ cl.isFloating
        THEN [s4 EXCEPT !.client[c].x =
                mo.monitorX + (CDiv(mo.monitorWidth, 2) - CDiv(WIDTH(s4, c), 2))]
        ELSE s4
      centery(s5) ==
        IF s5.client[c].y + s5.client[c].h > mo.monitorY + mo.monitorHeight
           /\ cl.isFloating
        THEN [s5 EXCEPT !.client[c].y =
                mo.monitorY + (CDiv(mo.monitorHeight, 2) - CDiv(HEIGHT(s5, c), 2))]
        ELSE s5
  IN IF "CWBorderWidth" \in ev.mask
     THEN [s EXCEPT !.client[c].borderWidth = ev.border_width]
     ELSE IF cl.isFloating \/ Arrange(s, s.selectedMonitor) = "NULL"
     THEN centery(centerx(seth(setw(sety(setx(s))))))
     ELSE s

enternotify(s, c, m) ==
  IF m = s.selectedMonitor /\ (c = NULL \/ c = Sel(s)) THEN s
  ELSE focus(IF m # s.selectedMonitor THEN [s EXCEPT !.selectedMonitor = m] ELSE s, c)

motionNotify(s) ==
  LET m == rootToMonitor(s)
      s1 == IF m # s.motionMon /\ s.motionMon # NULL
            THEN focus([s EXCEPT !.selectedMonitor = m], NULL)
            ELSE s
  IN [s1 EXCEPT !.motionMon = m]

propertynotifyTransient(s, c, trans) ==
  IF ~s.client[c].isFloating /\ trans # NULL
  THEN LET s1 == [s EXCEPT !.client[c].isFloating =
                              (windowToClient(s, trans) # NULL)]
       IN IF s1.client[c].isFloating THEN arrange(s1, s1.client[c].monitor)
          ELSE s1
  ELSE s

\* the first part of buttonPress: focus the monitor of the pressed window
buttonPressMonitor(s, m) ==
  IF m # s.selectedMonitor
  THEN focus([s EXCEPT !.selectedMonitor = m], NULL)
  ELSE s

(***************************************************************************)
(* The move / resize sub-loops.  drag holds their local variables between  *)
(* two events; outside a sub-loop it is Idle.                              *)
(***************************************************************************)
Idle == [mode |-> "idle", c |-> NULL, ocx |-> 0, ocy |-> 0, x |-> 0, y |-> 0,
         lasttime |-> 0]

Abs(a) == IF a < 0 THEN -a ELSE a

\* a movemouse() without "if (c->isFullscreen) return"
movemouseFullscreen(s, grab) ==
  LET c == Sel(s) IN
  IF c = NULL THEN s
  ELSE IF ~grab THEN s
  ELSE [s EXCEPT !.drag = [mode |-> "move", c |-> c,
                           ocx |-> s.client[c].x, ocy |-> s.client[c].y,
                           x |-> s.pointer[1], y |-> s.pointer[2],
                           lasttime |-> 0]]

\* up to the first XMaskEvent; grab: XGrabPointer and getRootPointer succeed
movemouse(s, grab) ==
  LET c == Sel(s) IN
  IF c = NULL THEN s
  ELSE IF s.client[c].isFullscreen THEN s
  ELSE IF ~grab THEN s
  ELSE [s EXCEPT !.drag = [mode |-> "move", c |-> c,
                           ocx |-> s.client[c].x, ocy |-> s.client[c].y,
                           x |-> s.pointer[1], y |-> s.pointer[2],
                           lasttime |-> 0]]

resizemouse(s, grab) ==
  LET c == Sel(s) IN
  IF c = NULL THEN s
  ELSE IF s.client[c].isFullscreen THEN s
  ELSE IF ~grab THEN s
  ELSE [s EXCEPT !.drag = [mode |-> "resize", c |-> c,
                           ocx |-> s.client[c].x, ocy |-> s.client[c].y,
                           x |-> 0, y |-> 0, lasttime |-> 0]]

\* case MotionNotify of movemouse; ev: [time, x, y]
movemouseTarget(s, ev) ==
  LET d == s.drag
      c == d.c
      sm == s.monitor[s.selectedMonitor]
      snapped(v, full, org, len) ==
        IF Abs(org - v) < snap THEN org
        ELSE IF Abs((org + len) - (v + full)) < snap THEN org + len - full
        ELSE v
  IN <<snapped(d.ocx + (ev.x - d.x), WIDTH(s, c), sm.windowX, sm.windowWidth),
       snapped(d.ocy + (ev.y - d.y), HEIGHT(s, c), sm.windowY, sm.windowHeight)>>

\* a movemouse() that lets a motion event through 1000 / 60 ms after the last
movemouseMotionEarly(s, ev) ==
  LET d == s.drag
      c == d.c
      place(s1, nx, ny) ==
        IF Arrange(s1, s1.selectedMonitor) = "NULL" \/ s1.client[c].isFloating
        THEN resize(s1, c, nx, ny, s1.client[c].w, s1.client[c].h, TRUE)
        ELSE s1
      float(s0, nx, ny) ==
        place(IF ~s0.client[c].isFloating
                 /\ Arrange(s0, s0.selectedMonitor) # "NULL"
                 /\ (Abs(nx - s0.client[c].x) > snap
                     \/ Abs(ny - s0.client[c].y) > snap)
              THEN togglefloating(s0)
              ELSE s0, nx, ny)
  IN IF ev.time - d.lasttime < 1000 \div 60 THEN s
     ELSE float([s EXCEPT !.drag.lasttime = ev.time],
                movemouseTarget(s, ev)[1], movemouseTarget(s, ev)[2])

movemouseMotion(s, ev) ==
  LET d == s.drag
      c == d.c
      place(s1, nx, ny) ==
        IF Arrange(s1, s1.selectedMonitor) = "NULL" \/ s1.client[c].isFloating
        THEN resize(s1, c, nx, ny, s1.client[c].w, s1.client[c].h, TRUE)
        ELSE s1
      float(s0, nx, ny) ==
        place(IF ~s0.client[c].isFloating
                 /\ Arrange(s0, s0.selectedMonitor) # "NULL"
                 /\ (Abs(nx - s0.client[c].x) > snap
                     \/ Abs(ny - s0.client[c].y) > snap)
              THEN togglefloating(s0)
              ELSE s0, nx, ny)
  IN IF ev.time - d.lasttime <= 1000 \div 60 THEN s
     ELSE float([s EXCEPT !.drag.lasttime = ev.time],
                movemouseTarget(s, ev)[1], movemouseTarget(s, ev)[2])

\* case MotionNotify of resizemouse
resizemouseMotion(s, ev) ==
  LET d == s.drag
      c == d.c
      sm == s.monitor[s.selectedMonitor]
      cm == s.monitor[s.client[c].monitor]
      bw == s.client[c].borderWidth
      inside(nw, nh) == /\ cm.windowX + nw >= sm.windowX
                        /\ cm.windowX + nw <= sm.windowX + sm.windowWidth
                        /\ cm.windowY + nh >= sm.windowY
                        /\ cm.windowY + nh <= sm.windowY + sm.windowHeight
      size(s1, nw, nh) ==
        IF Arrange(s1, s1.selectedMonitor) = "NULL" \/ s1.client[c].isFloating
        THEN resize(s1, c, s1.client[c].x, s1.client[c].y, nw, nh, TRUE)
        ELSE s1
      float(s0, nw, nh) ==
        size(IF inside(nw, nh) /\ ~s0.client[c].isFloating
                /\ Arrange(s0, s0.selectedMonitor) # "NULL"
                /\ (Abs(nw - s0.client[c].w) > snap
                    \/ Abs(nh - s0.client[c].h) > snap)
             THEN togglefloating(s0)
             ELSE s0, nw, nh)
  IN IF ev.time - d.lasttime <= 1000 \div 60 THEN s
     ELSE float([s EXCEPT !.drag.lasttime = ev.time],
                MAX(ev.x - d.ocx - 2 * bw + 1, 1),
                MAX(ev.y - d.ocy - 2 * bw + 1, 1))

\* a dragRelease() that moves the client over but leaves the selected
\* monitor where it was
dragReleaseNoFollow(s) ==
  LET c == s.drag.c
      cl == s.client[c]
      m == rectangleToMonitor(s, cl.x, cl.y, cl.w, cl.h)
      s1 == [s EXCEPT !.drag = Idle]
  IN IF m # s.selectedMonitor THEN sendmon(s1, c, m) ELSE s1

\* after the loop of movemouse / resizemouse: the ButtonRelease
dragRelease(s) ==
  LET c == s.drag.c
      cl == s.client[c]
      m == rectangleToMonitor(s, cl.x, cl.y, cl.w, cl.h)
      s1 == [s EXCEPT !.drag = Idle]
  IN IF m # s.selectedMonitor
     THEN focus([sendmon(s1, c, m) EXCEPT !.selectedMonitor = m], NULL)
     ELSE s1


(***************************************************************************)
(* Dispatch.  run() hands an event to its handler while the program runs;  *)
(* inside a move / resize sub-loop only the sub-loop's events are taken.   *)
(***************************************************************************)
Managed(s) == {c \in DOMAIN s.client : s.client[c].alloc}

Ready == status = "running" /\ budget > 0

Dispatch == Ready /\ drag.mode = "idle"

(***************************************************************************)
(* Inputs: what the X server and the clients can send.                     *)
(***************************************************************************)
Screen(k) == [screen_number |-> k - 1, x_org |-> (k - 1) * ScreenW, y_org |-> 0,
              width |-> ScreenW, height |-> ScreenH]

\* root pointer positions: the middle of each screen
PointerSpots == {<<(k - 1) * ScreenW + ScreenW \div 2, ScreenH \div 2>> : k \in MonIds}

NoHints == [flags |-> {}, base_width |-> 0, base_height |-> 0,
            min_width |-> 0, min_height |-> 0, max_width |-> 0, max_height |-> 0,
            width_inc |-> 0, height_inc |-> 0]

FixedHints == [NoHints EXCEPT !.flags = {"PMinSize", "PMaxSize"},
                              !.min_width = 200, !.min_height = 100,
                              !.max_width = 200, !.max_height = 100]

NoWMHints == [has |-> FALSE, urgent |-> FALSE, inputHint |-> FALSE, input |-> FALSE]

UrgentWMHints == [has |-> TRUE, urgent |-> TRUE, inputHint |-> FALSE, input |-> FALSE]

Plain == [matched |-> {}, fullscreen |-> FALSE, dialog |-> FALSE,
          size |-> NoHints, wmh |-> NoWMHints]

\* window properties at map time: plain, Gimp, Firefox, fullscreen, dialog
Props == {Plain,
          [Plain EXCEPT !.matched = {1}],
          [Plain EXCEPT !.matched = {2}],
          [Plain EXCEPT !.fullscreen = TRUE],
          [Plain EXCEPT !.dialog = TRUE]}

WinAttrs == {[x |-> 100, y |-> 100, width |-> 400, height |-> 300, border_width |-> 2]}

\* tag masks of the key table: 1 << 0, 1 << 1, ~0 (and 0 for view)
TagArgs == {{0}, {1}, AllBits}

(***************************************************************************)
(* Initial state: after setup() and scan().                                *)
(***************************************************************************)
Blank == [client |-> [c \in Windows |-> NoClient],
          monitor |-> [m \in MonIds |-> NoMonitor],
          monitors |-> <<>>, selectedMonitor |-> NULL,
          screenWidth |-> 0, screenHeight |-> 0,
          pointer |-> <<0, 0>>, drag |-> Idle, motionMon |-> NULL,
          status |-> "running"]

\* setup(): the display size, updateGeometry(), focus(NULL)
setup(info, ptr) ==
  LET s0 == [Blank EXCEPT !.screenWidth = Len(info) * ScreenW,
                          !.screenHeight = ScreenH,
                          !.pointer = ptr]
  IN focus(updateGeometry(s0, info)[1], NULL)

\* one pass of scan() over the windows XQueryTree returned: wins[i] is
\* [w, wa, trans, p]; the first pass skips the transients, the second
\* manages only them
RECURSIVE scanPass(_, _, _, _)
scanPass(s, wins, i, transients) ==
  IF i > Len(wins) \/ s.status # "running" THEN s
  ELSE IF (wins[i].trans # NULL) = transients
  THEN scanPass(manage(s, wins[i].w, wins[i].wa, wins[i].trans, wins[i].p),
                wins, i + 1, transients)
  ELSE scanPass(s, wins, i + 1, transients)

scan(s, wins) == scanPass(scanPass(s, wins, 1, FALSE), wins, 1, TRUE)

\* the windows that exist when the program starts: windows 1..k
ScanWindows(ps) ==
  [i \in 1..Len(ps) |-> [w |-> i, wa |-> CHOOSE wa \in WinAttrs : TRUE,
                          trans |-> NULL, p |-> ps[i]]]

StartsWith(s, n, ee) ==
  /\ client = s.client
  /\ monitor = s.monitor
  /\ monitors = s.monitors
  /\ selectedMonitor = s.selectedMonitor
  /\ screenWidth = s.screenWidth
  /\ screenHeight = s.screenHeight
  /\ pointer = s.pointer
  /\ drag = s.drag
  /\ motionMon = s.motionMon
  /\ status = s.status
  /\ budget = n
  /\ xerr = ee
  /\ fsEntry = [c \in DOMAIN s.client |-> NoEntry]

\* no X error is reported
NoError == [request_code |-> 0, error_code |-> 0, outcome |-> "none"]

Starts(s, n) == StartsWith(s, n, NoError)

(***************************************************************************)
(* The X error handler.  Request and error codes are the X protocol's      *)
(* (X11/Xproto.h, X11/X.h).                                                *)
(***************************************************************************)
BadWindow == 3
BadMatch == 8
BadDrawable == 9
BadAccess == 10

X_ConfigureWindow == 12
X_GrabButton == 28
X_GrabKey == 33
X_SetInputFocus == 42
X_CopyArea == 62
X_PolySegment == 66
X_PolyFillRectangle == 70
X_PolyText8 == 74

\* an xerror() that lets BadMatch pass for every request
xerrorAnyMatch(ee) ==
  IF ee.error_code = BadWindow \/ ee.error_code = BadMatch
  THEN "ignored" ELSE "xerrorxlib"

\* "ignored": return 0; "xerrorxlib": return xerrorxlib(dpy, ee)
xerror(ee) ==
  IF \/ ee.error_code = BadWindow
     \/ (ee.request_code = X_SetInputFocus /\ ee.error_code = BadMatch)
     \/ (ee.request_code = X_PolyText8 /\ ee.error_code = BadDrawable)
     \/ (ee.request_code = X_PolyFillRectangle /\ ee.error_code = BadDrawable)
     \/ (ee.request_code = X_PolySegment /\ ee.error_code = BadDrawable)
     \/ (ee.request_code = X_ConfigureWindow /\ ee.error_code = BadMatch)
     \/ (ee.request_code = X_GrabButton /\ ee.error_code = BadAccess)
     \/ (ee.request_code = X_GrabKey /\ ee.error_code = BadAccess)
     \/ (ee.request_code = X_CopyArea /\ ee.error_code = BadDrawable)
  THEN "ignored"
  ELSE "xerrorxlib"

(***************************************************************************)
(* Actions: one per event handler (key presses by the function bound).     *)
(***************************************************************************)
MapRequest(w, wa, trans, p) ==
  /\ Ready
  /\ windowToClient(State, w) = NULL
  /\ Becomes(manage(State, w, wa, trans, p))

DestroyNotify(w) ==
  /\ Dispatch
  /\ windowToClient(State, w) # NULL
  /\ Becomes(destroynotify(State, w))

UnmapNotify(w, send_event) ==
  /\ Dispatch
  /\ windowToClient(State, w) # NULL
  /\ Becomes(unmapnotify(State, w, send_event))

KeyView(ui) == Dispatch /\ Becomes(view(State, ui))

KeyToggleView(ui) == Dispatch /\ Becomes(toggleview(State, ui))

KeyTag(ui) == Dispatch /\ Becomes(tag(State, ui))

KeyToggleTag(ui) == Dispatch /\ Becomes(toggletag(State, ui))

KeyFocusStack(dir) == Dispatch /\ Becomes(focusStack(State, dir))

KeyFocusMon(dir) == Dispatch /\ Becomes(focusmon(State, dir))

KeyTagMon(dir) == Dispatch /\ Becomes(tagmon(State, dir))

KeyZoom == Dispatch /\ Becomes(zoom(State))

KeyToggleFloating == Dispatch /\ Becomes(togglefloating(State))

KeySetLayout(v) == Dispatch /\ Becomes(setlayout(State, v))

KeySetMFact(delta) == Dispatch /\ Becomes(setmfact(State, delta))

KeyIncNMaster(i) == Dispatch /\ Becomes(incnmaster(State, i))

KeyToggleBar == Dispatch /\ Becomes(toggleBar(State))

\* a button press on a client window; fn is the function bound to the
\* button and modifier, "none" when there is none; ptr is where
\* getRootPointer finds the pointer
ButtonPressClient(w, fn, grab, ptr) ==
  /\ Dispatch
  /\ windowToClient(State, w) # NULL
  /\ LET bound(s2) == CASE fn = "movemouse" ->
                             movemouse([s2 EXCEPT !.pointer = ptr], grab)
                        [] fn = "resizemouse" -> resizemouse(s2, grab)
                        [] fn = "togglefloating" -> togglefloating(s2)
                        [] OTHER -> s2
     IN Becomes(bound(focus(buttonPressMonitor(State, client[w].monitor), w)))

\* a button press on the root window
ButtonPressRoot(ptr) ==
  /\ Dispatch
  /\ LET s0 == [State EXCEPT !.pointer = ptr]
     IN Becomes(buttonPressMonitor(s0, rootToMonitor(s0)))

EnterNotify(w, ptr) ==
  /\ Dispatch
  /\ w # NULL => windowToClient(State, w) # NULL
  /\ LET s0 == IF w # NULL THEN State ELSE [State EXCEPT !.pointer = ptr]
         m == IF w # NULL THEN s0.client[w].monitor ELSE rootToMonitor(s0)
     IN Becomes(enternotify(s0, w, m))

MotionNotify(ptr) ==
  /\ Dispatch
  /\ Becomes(motionNotify([State EXCEPT !.pointer = ptr]))

ClientMessageFullscreen(w, action) ==
  /\ Dispatch
  /\ windowToClient(State, w) # NULL
  /\ Becomes(clientmessageFullscreen(State, w, action))

ClientMessageActive(w) ==
  /\ Dispatch
  /\ windowToClient(State, w) # NULL
  /\ Becomes(clientmessageActive(State, w))

ConfigureRequest(w, ev) ==
  /\ Ready
  /\ windowToClient(State, w) # NULL
  /\ Becomes(configurerequest(State, w, ev))

ConfigureNotify(width, height, info, ptr) ==
  /\ Dispatch
  /\ Becomes(configurenotify([State EXCEPT !.pointer = ptr], width, height, info))

PropertyNotifyTransient(w, trans) ==
  /\ Dispatch
  /\ windowToClient(State, w) # NULL
  /\ Becomes(propertynotifyTransient(State, w, trans))

PropertyNotifyHints(w, size) ==
  /\ Dispatch
  /\ windowToClient(State, w) # NULL
  /\ Becomes(updatesizehints(State, w, size))

PropertyNotifyWMHints(w, wmh) ==
  /\ Dispatch
  /\ windowToClient(State, w) # NULL
  /\ Becomes(drawBars(updatewmhints(State, w, wmh)))

PropertyNotifyWindowType(w, state, wtype) ==
  /\ Dispatch
  /\ windowToClient(State, w) # NULL
  /\ Becomes(updatewindowtype(State, w, state, wtype))

DragMotion(ev) ==
  /\ Ready
  /\ drag.mode # "idle"
  /\ ev.time >= drag.lasttime
  /\ LET s0 == [State EXCEPT !.pointer = <<ev.x, ev.y>>]
     IN Becomes(IF drag.mode = "move" THEN movemouseMotion(s0, ev)
               ELSE resizemouseMotion(s0, ev))

\* a sub-loop that a ButtonPress ends
dragButtonPressEnds(s) == [s EXCEPT !.drag = Idle]

\* a ButtonPress read by the XMaskEvent of a sub-loop (MOUSEMASK selects
\* it): the switch has no case for it
dragButtonPress(s) == s

DragButtonPress ==
  /\ Ready
  /\ drag.mode # "idle"
  /\ Becomes(dragButtonPress(State))

\* expose(): drawBar of the exposed window's monitor
Expose ==
  /\ Ready
  /\ Becomes(drawBars(State))

ButtonRelease ==
  /\ Ready
  /\ drag.mode # "idle"
  /\ Becomes(dragRelease(State))


(***************************************************************************)
(* The registry, focus and tags under a fixed set of monitors: the program *)
(* starts on two screens with up to MaxClients windows to adopt and then   *)
(* handles up to MaxSteps events.                                          *)
(***************************************************************************)
ScanProps == {Plain, [Plain EXCEPT !.matched = {2}]}

Init ==
  \E ptr \in PointerSpots, k \in 0..MaxClients :
    \E ps \in [1..k -> ScanProps] :
      Starts(scan(setup(<<Screen(1), Screen(2)>>, ptr), ScanWindows(ps)), MaxSteps)

Next ==
  \/ \E w \in Windows, wa \in WinAttrs, trans \in {NULL} \cup Windows, p \in Props :
       MapRequest(w, wa, trans, p)
  \/ \E w \in Windows : DestroyNotify(w)
  \/ \E w \in Windows, se \in BOOLEAN : UnmapNotify(w, se)
  \/ \E ui \in TagArgs \cup {{}} : KeyView(ui)
  \/ \E ui \in TagArgs : KeyToggleView(ui)
  \/ \E ui \in TagArgs : KeyTag(ui)
  \/ \E ui \in TagArgs : KeyToggleTag(ui)
  \/ \E dir \in {-1, 1} : KeyFocusStack(dir)
  \/ \E dir \in {-1, 1} : KeyFocusMon(dir)
  \/ \E dir \in {-1, 1} : KeyTagMon(dir)
  \/ KeyZoom
  \/ KeyToggleFloating
  \/ \E w \in Windows : ButtonPressClient(w, "none", TRUE, pointer)
  \/ \E w \in Windows \cup {NULL}, ptr \in PointerSpots : EnterNotify(w, ptr)
  \/ \E w \in Windows : ClientMessageActive(w)

Spec == Init /\ [][Next]_vars


(***************************************************************************)
(* C1.  With the monitor set fixed, every managed client is exactly once   *)
(* in the client list of exactly one monitor and exactly once in the stack *)
(* of that same monitor, and that monitor is the one its monitor reference *)
(* names.                                                                  *)
(***************************************************************************)
Count(q, c) == Cardinality({k \in 1..Len(q) : q[k] = c})

C1_OneListOneStack ==
  \A c \in Managed(State) :
    LET m == client[c].monitor IN
    /\ m \in Range(monitors)
    /\ Count(ClientList(State, m), c) = 1
    /\ Count(StackList(State, m), c) = 1
    /\ \A o \in Range(monitors) \ {m} :
         /\ Count(ClientList(State, o), c) = 0
         /\ Count(StackList(State, o), c) = 0

\* clients live on both monitors after one was sent over and another was
\* unmanaged or mapped
C1_Witness ==
  /\ budget < MaxSteps - 1
  /\ \E c, d \in Managed(State) : client[c].monitor # client[d].monitor
  /\ \E m \in Range(monitors) : Len(ClientList(State, m)) >= 2

(***************************************************************************)
(* C6.  Every managed client's tag mask is nonzero and within TAGMASK, and *)
(* so are both tag-set slots of every monitor.                             *)
(***************************************************************************)
C6_TagMasksValid ==
  /\ \A c \in Managed(State) : client[c].tags # {} /\ client[c].tags \subseteq TAGMASK
  /\ \A m \in Range(monitors) : \A k \in 1..2 :
       monitor[m].tagSet[k] # {} /\ monitor[m].tagSet[k] \subseteq TAGMASK

\* a client tagged with ~0, next to a transient that inherited tag 9 and a
\* view that toggled a second tag in
C6_Witness ==
  /\ \E c \in Managed(State) : client[c].tags = TAGMASK
  /\ \E c \in Managed(State) : client[c].tags = {8} /\ client[c].isFloating
  /\ \E m \in Range(monitors) : Cardinality(CurTags(State, m)) >= 2


(***************************************************************************)
(* C7.  toggletag with a mask that would leave the selected client without *)
(* a tag changes nothing: tags, selection, stack order and geometry stay.  *)
(***************************************************************************)
\* the masks that clear every tag of the selected client
ClearingMasks(s) ==
  {s.client[Sel(s)].tags, s.client[Sel(s)].tags \cup (AllBits \ TAGMASK)}

C7_ToggleTagToEmptyIsNoop ==
  Sel(State) # NULL =>
    \A ui \in TagArgs \cup ClearingMasks(State) :
      Xor(client[Sel(State)].tags, ui \cap TAGMASK) = {}
        => toggletag(State, ui) = State

\* the selected client carries exactly the tag a key of the table toggles,
\* after it was retagged, and other clients share its monitor
C7_Witness ==
  /\ budget < MaxSteps
  /\ Sel(State) # NULL
  /\ client[Sel(State)].tags = {1}
  /\ Len(StackList(State, selectedMonitor)) >= 2

(***************************************************************************)
(* C8.  Focus fallback: focus() called with no target, or with a target    *)
(* that is not visible, resolves to the first visible client of the        *)
(* selected monitor's stack (most recently focused first), and to none     *)
(* when no client is visible.  Checked in the states in which the handlers *)
(* call it: as the state is, after tag() has retagged the selected client, *)
(* and after view() has switched the tag set.                              *)
(***************************************************************************)
FirstVisibleInStack(s) ==
  LET q == StackList(s, s.selectedMonitor)
      vis == {k \in 1..Len(q) : ISVISIBLE(s, q[k])}
  IN IF vis = {} THEN NULL ELSE q[CHOOSE k \in vis : \A j \in vis : k <= j]

FocusCallStates ==
  {State}
  \cup {[State EXCEPT !.client[Sel(State)].tags = ui] :
          ui \in {u \in {{0}, {1}, {8}} : Sel(State) # NULL}}
  \cup {[State EXCEPT !.monitor[selectedMonitor].tagSet[
                          monitor[selectedMonitor].selectedTags + 1] = ui] :
          ui \in {{0}, {1}, {8}}}

FallbackArgs(s) == {NULL} \cup {c \in Managed(s) : ~ISVISIBLE(s, c)}

C8_FallbackIsFirstVisibleInStack ==
  \A s \in FocusCallStates : \A c0 \in FallbackArgs(s) :
    /\ focusTarget(s, c0) = FirstVisibleInStack(s)
    /\ Sel(focus(s, c0)) = FirstVisibleInStack(s)

\* stack order [C3, C1, C2] with C3 selected, where the client list has C2
\* before C1: when C3 is retagged out of view the fallback is C1, not C2
C8_Witness ==
  /\ budget < MaxSteps
  /\ LET q == StackList(State, selectedMonitor)
         l == SelectSeq(ClientList(State, selectedMonitor),
                        LAMBDA c : c # Sel(State))
     IN /\ Len(q) = 3 /\ q[1] = Sel(State)
        /\ \A k \in 1..3 : ISVISIBLE(State, q[k])
        /\ l[1] = q[3]
        /\ LET s == [State EXCEPT !.client[q[1]].tags = {8}]
           IN focusTarget(s, NULL) = q[2] /\ Sel(focus(s, NULL)) = q[2]

(***************************************************************************)
(* C10.  focus(target) with a visible target: the selected monitor becomes *)
(* the target's monitor, the target is that monitor's selected client and  *)
(* the head of its stack, the other stack entries keep their order, and    *)
(* the target's urgent flag is cleared.                                    *)
(***************************************************************************)
Without(q, c) == SelectSeq(q, LAMBDA d : d # c)

C10_FocusVisibleTarget ==
  \A c \in Managed(State) :
    ISVISIBLE(State, c) =>
      LET m == client[c].monitor
          t == focus(State, c)
      IN /\ t.selectedMonitor = m
         /\ t.monitor[m].selectedClient = c
         /\ StackList(t, m) = <<c>> \o Without(StackList(State, m), c)
         /\ \A o \in Range(monitors) \ {m} : StackList(t, o) = StackList(State, o)
         /\ ~t.client[c].isUrgent

\* an urgent client at the bottom of the three-entry stack of the monitor
\* that is not selected
C10_Witness ==
  \E c \in Managed(State) :
    /\ ISVISIBLE(State, c)
    /\ client[c].isUrgent
    /\ client[c].monitor # selectedMonitor
    /\ LET q == StackList(State, client[c].monitor)
       IN Len(q) = 3 /\ q[3] = c
    /\ focus(State, c).monitor[client[c].monitor].stack = c


(***************************************************************************)
(* C9.  After every handler, the selected client of every monitor,         *)
(* selected or not, is none or a client visible under that monitor's       *)
(* current tag set.                                                        *)
(***************************************************************************)
C9_SelectionVisible ==
  \A m \in Range(monitors) :
    LET c == monitor[m].selectedClient
    IN c = NULL \/ (c \in Managed(State) /\ client[c].monitor = m
                    /\ ISVISIBLE(State, c))

(***************************************************************************)
(* C3.  After every operation the selected client of each monitor is none  *)
(* or a member of that monitor's own client list.                          *)
(***************************************************************************)
C3_SelectionInOwnList ==
  \A m \in Range(monitors) :
    monitor[m].selectedClient = NULL
    \/ monitor[m].selectedClient \in Range(ClientList(State, m))


(***************************************************************************)
(* Monitor reconciliation: the same start, with the root ConfigureNotify   *)
(* events of a display that loses and regains its second screen, the moves *)
(* of clients between monitors by key and by drag, and views.              *)
(***************************************************************************)
\* what Xinerama reports: one screen, two mirrored screens (one unique
\* rectangle), two screens side by side
ShrinkInfos == {<<Screen(1)>>, <<Screen(1), Screen(1)>>}

ScreenInfos == ShrinkInfos \cup {<<Screen(1), Screen(2)>>}

\* the display is as wide as its unique screens side by side
RootWidth(info) == Len(uniqueGeoms(info, 1, <<>>)) * ScreenW

MotionEvents == {[time |-> 20, x |-> p[1], y |-> p[2]] : p \in PointerSpots}

NextMonitors ==
  \/ \E info \in ScreenInfos, ptr \in PointerSpots :
       ConfigureNotify(RootWidth(info), ScreenH, info, ptr)
  \/ \E w \in Windows, wa \in WinAttrs, p \in ScanProps : MapRequest(w, wa, NULL, p)
  \/ \E w \in Windows : DestroyNotify(w)
  \/ \E dir \in {1} : KeyFocusMon(dir)
  \/ \E dir \in {1} : KeyTagMon(dir)
  \/ \E ui \in {{0}, {8}} : KeyView(ui)
  \/ KeyToggleFloating
  \/ \E w \in Windows, ptr \in PointerSpots : ButtonPressClient(w, "movemouse", TRUE, ptr)
  \/ \E ev \in MotionEvents : DragMotion(ev)
  \/ ButtonRelease

SpecMonitors == Init /\ [][NextMonitors]_vars

\* the program state after the step
After == [client |-> client', monitor |-> monitor', monitors |-> monitors',
          selectedMonitor |-> selectedMonitor', screenWidth |-> screenWidth',
          screenHeight |-> screenHeight', pointer |-> pointer', drag |-> drag',
          motionMon |-> motionMon', status |-> status']

(***************************************************************************)
(* C2.  Reconciliation of two monitors with one reported unique rectangle: *)
(* afterwards one monitor remains; every client of the removed monitor is  *)
(* exactly once in the surviving monitor's client list and stack and names *)
(* it as its monitor; every client the surviving monitor had is still in   *)
(* its client list; and that list is finite.                               *)
(***************************************************************************)
ShrinkDone ==
  /\ status' = "running"
  /\ Len(monitors') = 1
  /\ LET m == monitors'[1]
         q == ClientList(After, m)
         st == StackList(After, m)
     IN /\ Finite(q)
        /\ \A c \in Managed(State) :
             client[c].monitor = monitors[2] =>
               /\ Count(q, c) = 1 /\ Count(st, c) = 1
               /\ client'[c].monitor = m
        /\ \A c \in Managed(State) :
             client[c].monitor = monitors[1] => c \in Range(q)

C2_ShrinkKeepsClients ==
  [][(/\ Len(monitors) = 2
      /\ \E info \in ShrinkInfos, ptr \in PointerSpots :
           ConfigureNotify(RootWidth(info), ScreenH, info, ptr))
     => ShrinkDone]_vars


(***************************************************************************)
(* Fullscreen: the same start with plain and floating (Gimp) windows, and  *)
(* the events a client can meet while it is fullscreen: _NET_WM_STATE      *)
(* messages, configure requests, property changes, togglefloating and root *)
(* ConfigureNotify events of a display that changes its height.            *)
(***************************************************************************)
FullscreenProps == {Plain, [Plain EXCEPT !.matched = {1}]}

InitFullscreen ==
  \E ptr \in PointerSpots, k \in 0..MaxClients :
    \E ps \in [1..k -> FullscreenProps] :
      Starts(scan(setup(<<Screen(1), Screen(2)>>, ptr), ScanWindows(ps)), MaxSteps)

NoRequest == [mask |-> {}, x |-> 0, y |-> 0, width |-> 0, height |-> 0,
              border_width |-> 0]

\* ConfigureRequest events: a border width, a position, a size
ConfigureRequests ==
  {[NoRequest EXCEPT !.mask = {"CWBorderWidth"}, !.border_width = 2],
   [NoRequest EXCEPT !.mask = {"CWX", "CWY"}, !.x = 50, !.y = 60],
   [NoRequest EXCEPT !.mask = {"CWWidth", "CWHeight"}, !.width = 300, !.height = 200]}

LowScreen(k) == [Screen(k) EXCEPT !.height = ScreenH \div 2]

NextFullscreen ==
  \/ \E w \in Windows, action \in 0..2 : ClientMessageFullscreen(w, action)
  \/ \E w \in Windows, ev \in ConfigureRequests : ConfigureRequest(w, ev)
  \/ \E info \in {<<Screen(1), Screen(2)>>, <<LowScreen(1), LowScreen(2)>>} :
       ConfigureNotify(RootWidth(info), info[1].height, info, pointer)
  \/ \E w \in Windows, state \in BOOLEAN, wtype \in BOOLEAN :
       PropertyNotifyWindowType(w, state, wtype)
  \/ \E w \in Windows, trans \in Windows : PropertyNotifyTransient(w, trans)
  \/ \E w \in Windows, size \in {NoHints, FixedHints} : PropertyNotifyHints(w, size)
  \/ \E w \in Windows, wmh \in {NoWMHints, UrgentWMHints} : PropertyNotifyWMHints(w, wmh)
  \/ KeyToggleFloating
  \/ \E dir \in {1} : KeyFocusStack(dir)
  \/ \E w \in Windows, wa \in WinAttrs, p \in {Plain, [Plain EXCEPT !.fullscreen = TRUE]} :
       MapRequest(w, wa, NULL, p)

SpecFullscreen == InitFullscreen /\ [][NextFullscreen]_vars

(***************************************************************************)
(* C4.  A client whose fullscreen flag is set is floating and has border   *)
(* width 0, in every reachable state.                                      *)
(***************************************************************************)
C4_FullscreenFloatingNoBorder ==
  \A c \in Managed(State) :
    client[c].isFullscreen => client[c].isFloating /\ client[c].borderWidth = 0

(***************************************************************************)
(* C5.  A client that has just left fullscreen has the floating flag and   *)
(* the border width it had immediately before it entered, and, if it was   *)
(* floating then, the geometry it had then, whatever was handled between.  *)
(***************************************************************************)
C5_ExitRestoresEntry ==
  \A c \in Managed(State) :
    fsEntry[c].phase = "left" =>
      /\ client[c].isFloating = fsEntry[c].isFloating
      /\ client[c].borderWidth = fsEntry[c].borderWidth
      /\ fsEntry[c].isFloating =>
           /\ client[c].x = fsEntry[c].x /\ client[c].y = fsEntry[c].y
           /\ client[c].w = fsEntry[c].w /\ client[c].h = fsEntry[c].h


(***************************************************************************)
(* C11.  A newly mapped client does not steal focus: after manage() of a   *)
(* new window that lands on the selected monitor, the client that was      *)
(* selected before is still the selected client and still precedes the new *)
(* client in the monitor's focus stack.  Stated over every window the      *)
(* MapRequest handler would manage in the current state.                   *)
(***************************************************************************)
Precedes(q, a, b) ==
  \E i, j \in 1..Len(q) : i < j /\ q[i] = a /\ q[j] = b

C11_NewClientKeepsFocus ==
  \A w \in Windows, wa \in WinAttrs, p \in Props :
    (status = "running" /\ windowToClient(State, w) = NULL /\ Sel(State) # NULL) =>
      LET t == manage(State, w, wa, NULL, p) IN
      (t.status = "running" /\ t.client[w].monitor = selectedMonitor) =>
        /\ Sel(t) = Sel(State)
        /\ Precedes(StackList(t, selectedMonitor), Sel(State), w)


(***************************************************************************)
(* C12.  An activation request (_NET_ACTIVE_WINDOW) for a managed client   *)
(* that is not the selected client only sets that client's urgent flag:    *)
(* the state the handler leaves is the state before with that one flag     *)
(* set, so the selected client, the selected monitor and the order of      *)
(* every stack and every client list are unchanged.                        *)
(***************************************************************************)
C12_ActivationOnlyMarksUrgent ==
  \A w \in Managed(State) :
    w # Sel(State) =>
      LET t == clientmessageActive(State, w) IN
      /\ t.client[w].isUrgent
      /\ Sel(t) = Sel(State)
      /\ t.selectedMonitor = selectedMonitor
      /\ \A m \in Range(monitors) :
           /\ StackList(t, m) = StackList(State, m)
           /\ ClientList(t, m) = ClientList(State, m)
      /\ t = [State EXCEPT !.client[w].isUrgent = TRUE]

\* a client that an activation request has marked urgent sits below the
\* selected client in a stack of three
C12_Witness ==
  \E w \in Managed(State) :
    /\ w # Sel(State)
    /\ client[w].isUrgent
    /\ client[w].monitor = selectedMonitor
    /\ Len(StackList(State, selectedMonitor)) = 3
    /\ clientmessageActive(State, w) = State


(***************************************************************************)
(* The layout specification: the program starts on one screen and adopts   *)
(* up to MaxTiled windows that all carry the same WM_NORMAL_HINTS (the     *)
(* first one may be a dialog); the keys that change the arrangement are    *)
(* pressed.                                                                *)
(***************************************************************************)
TiledWindows == 1..MaxTiled

\* a terminal: character cells on top of a base size
TerminalHints == [NoHints EXCEPT !.flags = {"PBaseSize", "PResizeInc"},
                                 !.base_width = 10, !.base_height = 10,
                                 !.width_inc = 7, !.height_inc = 15]

\* resize increments and a maximum size that is not a whole number of them
CappedHints == [NoHints EXCEPT !.flags = {"PResizeInc", "PMaxSize"},
                               !.width_inc = 7, !.height_inc = 15,
                               !.max_width = 500, !.max_height = 300]

\* resize increments larger than a small cell, no base or minimum size
CoarseHints == [NoHints EXCEPT !.flags = {"PResizeInc"},
                               !.width_inc = 64, !.height_inc = 64]

LayoutHints == {NoHints, FixedHints, TerminalHints, CappedHints, CoarseHints}

\* the state after setup(), with room for the windows of the layout runs
Roomy(s) == [s EXCEPT !.client = [c \in TiledWindows |-> NoClient]]

InitLayout ==
  \E n \in 1..MaxTiled, size \in LayoutHints, dialog \in BOOLEAN :
    LET ps == [i \in 1..n |-> [Plain EXCEPT !.size = size,
                                            !.dialog = (dialog /\ i = 1)]]
    IN Starts(scan(Roomy(setup(<<Screen(1)>>, <<ScreenW \div 2, ScreenH \div 2>>)),
                   ScanWindows(ps)), MaxSteps)

NextLayout ==
  \/ \E v \in Layouts \cup {NULL} : KeySetLayout(v)
  \/ \E delta \in {-mfactStep, mfactStep} : KeySetMFact(delta)
  \/ \E i \in {-1, 1} : KeyIncNMaster(i)
  \/ KeyToggleBar

SpecLayout == InitLayout /\ [][NextLayout]_vars


(***************************************************************************)
(* C13.  applysizehints is idempotent: for every client and every proposed *)
(* (x, y, w, h), the (x, y, w, h) one application produces, proposed       *)
(* again, comes back unchanged.                                            *)
(***************************************************************************)
ProposedSpots == {<<-700, -700>>, <<0, 20>>, <<1200, 900>>}

ProposedSizes == {<<0, 0>>, <<30, 30>>, <<505, 305>>, <<998, 778>>}

C13_SizeHintsIdempotent ==
  \A c \in Managed(State), at \in ProposedSpots, size \in ProposedSizes,
     interact \in BOOLEAN :
    LET once == applysizehints(State, c, at[1], at[2], size[1], size[2], interact)
        twice == applysizehints(State, c, once.x, once.y, once.w, once.h, interact)
    IN <<twice.x, twice.y, twice.w, twice.h>> = <<once.x, once.y, once.w, once.h>>


(***************************************************************************)
(* C14.  tile() leaves no gap and no overlap in a column: when the tiled   *)
(* clients carry no size hints and every cell is at least the bar height   *)
(* high, the heights of the master column's clients, border included, sum  *)
(* to the window area's height, and so do the stack column's; the first    *)
(* client of a column starts at the top of the window area and every next  *)
(* one starts where the one before it ends.  The border included is the    *)
(* one the window is configured with: none for the only tiled client.      *)
(***************************************************************************)
FootprintHeight(s, c) ==
  s.client[c].h + (IF noBorder(s, c) THEN 0 ELSE 2 * s.client[c].borderWidth)

RECURSIVE SumOfHeights(_, _)
SumOfHeights(s, col) ==
  IF col = <<>> THEN 0
  ELSE FootprintHeight(s, Head(col)) + SumOfHeights(s, Tail(col))

Unhinted(cl) ==
  /\ cl.basew = 0 /\ cl.baseh = 0 /\ cl.incw = 0 /\ cl.inch = 0
  /\ cl.minw = 0 /\ cl.minh = 0 /\ cl.maxw = 0 /\ cl.maxh = 0

FillsHeight(s, m, col) ==
  col # <<>> =>
    /\ SumOfHeights(s, col) = s.monitor[m].windowHeight
    /\ s.client[col[1]].y = s.monitor[m].windowY
    /\ \A k \in 1..(Len(col) - 1) :
         s.client[col[k + 1]].y = s.client[col[k]].y + FootprintHeight(s, col[k])

InCell(s, c, x, y, w, h) ==
  /\ s.client[c].x = x
  /\ s.client[c].y = y
  /\ s.client[c].w = w - 2 * s.client[c].borderWidth
  /\ s.client[c].h = h - 2 * s.client[c].borderWidth

HalfAndHalf(m) ==
  /\ Arrange(State, m) = "tile"
  /\ monitor[m].masterFactor = FloatOne \div 2
  /\ monitor[m].nMaster = 1
  /\ monitor[m].windowWidth = 1000
  /\ monitor[m].windowHeight = 800
  /\ Len(Tiled(State, m)) = 3
  /\ \A k \in 1..3 : Unhinted(client[Tiled(State, m)[k]])

C15_ThreeClientScenario ==
  \A m \in Range(monitors) :
    HalfAndHalf(m) =>
      LET t == tile(State, m)
          q == Tiled(State, m)
          wx == monitor[m].windowX
          wy == monitor[m].windowY
      IN /\ InCell(t, q[1], wx, wy, 500, 800)
         /\ InCell(t, q[2], wx + 500, wy, 500, 400)
         /\ InCell(t, q[3], wx + 500, wy + 400, 500, 400)
         /\ t.client[q[2]].y + HEIGHT(t, q[2]) <= t.client[q[3]].y

\* tile has arranged three plain clients under the default master fraction
\* and master count with the bar hidden
C15_Witness ==
  /\ HalfAndHalf(1)
  /\ tile(State, 1) = State
  /\ budget < MaxSteps


(***************************************************************************)
(* C16.  dwindle() on a monitor with one to eight tiled clients leaves     *)
(* every one of them with a stored width and a stored height above zero,   *)
(* whatever the clients' size hints are.                                   *)
(***************************************************************************)
C16_DwindlePositiveSizes ==
  \A m \in Range(monitors) :
    (Arrange(State, m) = "dwindle" /\ Len(Tiled(State, m)) \in 1..8) =>
      LET t == dwindle(State, m)
          q == Tiled(State, m)
      IN \A k \in 1..Len(q) : t.client[q[k]].w > 0 /\ t.client[q[k]].h > 0


(***************************************************************************)
(* C17.  After monocle() has arranged a monitor, every tiled client of     *)
(* the monitor covers the whole window area, and the monitor's layout      *)
(* symbol is "[k]" with k the number of tiled clients (visible and not     *)
(* floating) of the monitor.                                               *)
(***************************************************************************)
CoversWindowArea(s, m, c) ==
  /\ s.client[c].x = s.monitor[m].windowX
  /\ s.client[c].y = s.monitor[m].windowY
  /\ s.client[c].w = s.monitor[m].windowWidth
  /\ s.client[c].h = s.monitor[m].windowHeight

C17_MonocleSymbolCountsTiled ==
  \A m \in Range(monitors) :
    Arrange(State, m) = "monocle" =>
      LET t == monocle(State, m)
          q == Tiled(State, m)
      IN /\ \A k \in 1..Len(q) : Unhinted(client[q[k]]) => CoversWindowArea(t, m, q[k])
         /\ t.monitor[m].layoutSymbol = <<"[", Len(q), "]">>


(***************************************************************************)
(* C18.  The two layout slots of the selected monitor: after setlayout(A)  *)
(* and then setlayout(B) with A # B, B is the active layout and the        *)
(* inactive slot holds A; setlayout without an argument then makes A the   *)
(* active layout and a second one makes B active again; setlayout(L) with  *)
(* L the active layout changes neither slot nor the active index.          *)
(***************************************************************************)
ActiveLayout(s) ==
  s.monitor[s.selectedMonitor].layouts[s.monitor[s.selectedMonitor].selectedLayout + 1]

InactiveLayout(s) ==
  s.monitor[s.selectedMonitor].layouts[2 - s.monitor[s.selectedMonitor].selectedLayout]

C18_LayoutSlotsToggle ==
  status = "running" =>
    /\ \A A \in Layouts :
         LET s1 == setlayout(State, A) IN
         \A B \in Layouts \ {A} :
           LET s2 == setlayout(s1, B)
               s3 == setlayout(s2, NULL)
               s4 == setlayout(s3, NULL)
           IN /\ ActiveLayout(s2) = B /\ InactiveLayout(s2) = A
              /\ ActiveLayout(s3) = A /\ InactiveLayout(s3) = B
              /\ ActiveLayout(s4) = B /\ InactiveLayout(s4) = A
    /\ LET t == setlayout(State, ActiveLayout(State)) IN
       /\ t.monitor[selectedMonitor].layouts = monitor[selectedMonitor].layouts
       /\ t.monitor[selectedMonitor].selectedLayout
            = monitor[selectedMonitor].selectedLayout

\* tile, then monocle, then the key without an argument: tile is active
\* again and monocle waits in the other slot
C18_Witness ==
  /\ budget = MaxKeys - 3
  /\ monitor[selectedMonitor].layouts = <<4, 2>>
  /\ monitor[selectedMonitor].selectedLayout = 1
  /\ ActiveLayout(State) = 2 /\ InactiveLayout(State) = 4


(***************************************************************************)
(* The key specification: the program starts on one screen with up to two  *)
(* plain windows and the keys bound to setlayout and setmfact are pressed, *)
(* often enough to walk the master factor from 0.5 to either end of its    *)
(* range.                                                                  *)
(***************************************************************************)
InitKeys ==
  \E k \in 0..2 :
    Starts(scan(setup(<<Screen(1)>>, <<ScreenW \div 2, ScreenH \div 2>>),
                ScanWindows([i \in 1..k |-> Plain])), MaxKeys)

NextKeys ==
  \/ \E v \in Layouts \cup {NULL} : KeySetLayout(v)
  \/ \E delta \in {-mfactStep, mfactStep} : KeySetMFact(delta)

SpecKeys == InitKeys /\ [][NextKeys]_vars


(***************************************************************************)
(* C20.  In every reachable state the master factor of every monitor lies  *)
(* between 0.05 and 0.95, and a setmfact request whose result would fall   *)
(* outside that range, or that comes while the active layout has no        *)
(* arrangement algorithm, leaves the master factor as it is.               *)
(***************************************************************************)
C20_MasterFactorInRange ==
  /\ \A m \in Range(monitors) :
       monitor[m].masterFactor >= mfactMin /\ monitor[m].masterFactor <= mfactMax
  /\ \A delta \in {-mfactStep, mfactStep} :
       LET f == FloatRound(delta + monitor[selectedMonitor].masterFactor)
           t == setmfact(State, delta)
       IN (f < mfactMin \/ f > mfactMax \/ Arrange(State, selectedMonitor) = "NULL") =>
            \A m \in Range(monitors) :
              t.monitor[m].masterFactor = monitor[m].masterFactor

\* eight presses have raised the master factor to 0.9 and a ninth key has
\* been handled: one more raise would leave the range
C20_Witness ==
  /\ monitor[selectedMonitor].masterFactor > masterFactor
  /\ FloatRound(mfactStep + monitor[selectedMonitor].masterFactor) > mfactMax
  /\ budget <= MaxKeys - 9
  /\ Arrange(State, selectedMonitor) # "NULL"


(***************************************************************************)
(* C19.  The two tag-set slots of the selected monitor: from the current   *)
(* tag set P, view(A) with A a nonempty tag set other than P makes A the   *)
(* current tag set and keeps P as the previous one; view(0) then makes P   *)
(* current again and one more view(0) makes A current; view(T) with T the  *)
(* current tag set changes nothing at all.                                 *)
(***************************************************************************)
PrevTags(s, m) == s.monitor[m].tagSet[2 - s.monitor[m].selectedTags]

C19_ViewTogglesBack ==
  status = "running" =>
    LET m == selectedMonitor
        P == CurTags(State, m)
    IN /\ \A ui \in TagArgs :
            LET A == ui \cap TAGMASK
                s1 == view(State, ui)
                s2 == view(s1, {})
                s3 == view(s2, {})
            IN (A # P /\ s3.status = "running") =>
                 /\ s3.selectedMonitor = m
                 /\ CurTags(s1, m) = A /\ PrevTags(s1, m) = P
                 /\ CurTags(s2, m) = P /\ PrevTags(s2, m) = A
                 /\ CurTags(s3, m) = A /\ PrevTags(s3, m) = P
       /\ view(State, P) = State

\* tag 2 was viewed and the view was toggled back: tag 1 is current, tag 2
\* is the previous tag set
C19_Witness ==
  /\ status = "running"
  /\ budget <= MaxSteps - 2
  /\ monitor[selectedMonitor].tagSet = <<{0}, {1}>>
  /\ monitor[selectedMonitor].selectedTags = 0
  /\ PrevTags(State, selectedMonitor) = {1}


(***************************************************************************)
(* C21.  In the move sub-loop that drags a client c which is tiled under   *)
(* a layout with an arrangement algorithm, a motion event whose candidate  *)
(* position is more than the snap distance away from c's position makes c  *)
(* floating, and changes the floating flag of no other client, whatever    *)
(* configure requests and map requests were handled during the drag.       *)
(***************************************************************************)
C21_DragFloatsDraggedClient ==
  \A ev \in MotionEvents :
    LET c == drag.c
        s0 == [State EXCEPT !.pointer = <<ev.x, ev.y>>]
        to == movemouseTarget(s0, ev)
    IN (/\ status = "running" /\ drag.mode = "move"
        /\ ev.time - drag.lasttime > 1000 \div 60
        /\ ~client[c].isFloating
        /\ Arrange(State, selectedMonitor) # "NULL"
        /\ (Abs(to[1] - client[c].x) > snap \/ Abs(to[2] - client[c].y) > snap)) =>
         LET t == movemouseMotion(s0, ev) IN
         /\ t.client[c].isFloating
         /\ \A d \in Managed(State) \ {c} :
              t.client[d].isFloating = client[d].isFloating


(***************************************************************************)
(* The drag specification: the same start with plain and floating (Gimp)   *)
(* windows; a button press starts a move or a resize sub-loop, and inside  *)
(* it the events XMaskEvent lets through are handled: motion, button       *)
(* press and release, and the configure requests, exposures and map        *)
(* requests that are passed to their handlers.                             *)
(***************************************************************************)
InitDrag ==
  \E ptr \in PointerSpots, k \in 0..MaxClients :
    \E ps \in [1..k -> FullscreenProps] :
      Starts(scan(setup(<<Screen(1), Screen(2)>>, ptr), ScanWindows(ps)), MaxSteps)

NextDrag ==
  \/ \E w \in Windows, fn \in {"movemouse", "resizemouse"}, grab \in BOOLEAN,
        ptr \in PointerSpots : ButtonPressClient(w, fn, grab, ptr)
  \/ \E ev \in MotionEvents : DragMotion(ev)
  \/ DragButtonPress
  \/ ButtonRelease
  \/ \E w \in Windows, ev \in ConfigureRequests : ConfigureRequest(w, ev)
  \/ Expose
  \/ \E w \in Windows, wa \in WinAttrs : MapRequest(w, wa, NULL, Plain)

SpecDrag == InitDrag /\ [][NextDrag]_vars


(***************************************************************************)
(* C22.  A move or resize sub-loop, once entered, ends when and only when  *)
(* a ButtonRelease is received: a step taken inside the sub-loop leaves it *)
(* exactly if the step is the handling of a ButtonRelease, and after that  *)
(* step the program is running in the dispatcher again.  No motion event,  *)
(* discarded motion event, button press, configure request, exposure or    *)
(* map request ends the sub-loop.                                          *)
(***************************************************************************)
C22_OnlyReleaseEndsLoop ==
  [][drag.mode # "idle" =>
       /\ (drag'.mode = "idle") <=> ButtonRelease
       /\ ButtonRelease => status' = "running"]_vars

\* a motion event was taken in a sub-loop and one more event was handled
\* without ending it
C22_Witness ==
  /\ drag.mode # "idle"
  /\ drag.lasttime > 0
  /\ budget = 0
  /\ status = "running"

(***************************************************************************)
(* C23.  While a sub-loop is active, the events it passes to their         *)
(* handlers (configure request, exposure, map request) start no other      *)
(* sub-loop: the one sub-loop there is keeps its client, its origin and    *)
(* its last motion time across the handler, which has returned when the    *)
(* sub-loop reads its next event.                                          *)
(***************************************************************************)
C23_PassthroughStartsNoLoop ==
  [][(/\ drag.mode # "idle"
      /\ \/ Expose
         \/ \E w \in Windows, ev \in ConfigureRequests : ConfigureRequest(w, ev)
         \/ \E w \in Windows, wa \in WinAttrs : MapRequest(w, wa, NULL, Plain))
     => drag' = drag]_vars

\* a map request was handled inside a move sub-loop: its window is the
\* selected client now, the sub-loop still drags the client it started with
C23_Witness ==
  /\ status = "running"
  /\ drag.mode = "move"
  /\ Sel(State) # NULL
  /\ Sel(State) # drag.c


(***************************************************************************)
(* C24.  When a sub-loop ends and the centre of the dragged client's       *)
(* geometry lies on a monitor m other than the one the drag started on,    *)
(* then after the ButtonRelease the client's monitor is m, the client is   *)
(* in m's client list and stack and in no other monitor's, m is the        *)
(* selected monitor and the client is m's selected client.  (A drag does   *)
(* not change the client's monitor before it ends, so the monitor the drag *)
(* started on is the client's monitor at the release.)                     *)
(***************************************************************************)
CentreOn(s, c, m) ==
  LET cl == s.client[c]
      mo == s.monitor[m]
      \* twice the centre of (x, y, w, h), to stay in whole numbers
      cx2 == 2 * cl.x + cl.w
      cy2 == 2 * cl.y + cl.h
  IN /\ cx2 >= 2 * mo.monitorX /\ cx2 < 2 * (mo.monitorX + mo.monitorWidth)
     /\ cy2 >= 2 * mo.monitorY /\ cy2 < 2 * (mo.monitorY + mo.monitorHeight)

Reports ==
  UNION {{[i \in 1..n |-> [Screen(ks[i]) EXCEPT !.screen_number = i - 1]] :
            ks \in [1..n -> MonIds]} : n \in 1..(MaxMons + 1)}

SameRect(a, b) ==
  a.x_org = b.x_org /\ a.y_org = b.y_org /\ a.width = b.width /\ a.height = b.height

FirstSeen(info) ==
  LET firsts == {i \in DOMAIN info : \A j \in 1..(i - 1) : ~SameRect(info[j], info[i])}
      nth(k) == CHOOSE i \in firsts : Cardinality({j \in firsts : j <= i}) = k
  IN [k \in 1..Cardinality(firsts) |-> info[nth(k)]]

C25_ReconcileCountsUnique ==
  status = "running" =>
    \A info \in Reports :
      LET unique == uniqueGeoms(info, 1, <<>>)
          nn == Len(unique)
          n == Len(monitors)
      IN /\ unique = FirstSeen(info)
         /\ nn >= 1
         /\ LET t == updateGeometry(State, info)[1]
            IN t.status = "running" =>
                 /\ Len(t.monitors) = nn
                 /\ n <= nn => SubSeq(t.monitors, 1, n) = monitors
                 /\ nn < n => t.monitors = SubSeq(monitors, 1, nn)

\* two monitors were reconciled with one unique rectangle
C25_Witness ==
  /\ status = "running" /\ Len(monitors) = 1 /\ screenWidth = ScreenW
  /\ Managed(State) # {}


(***************************************************************************)
(* C26.  In every reachable state after setup the selected monitor is a    *)
(* member of the monitor list, never a destroyed monitor: a reconciliation *)
(* that destroys the selected monitor leaves a surviving monitor selected, *)
(* and after a dirty reconciliation the selected monitor is the monitor    *)
(* that contains the pointer.                                              *)
(***************************************************************************)
Live(s, m) == m # NULL /\ Count(s.monitors, m) = 1 /\ s.monitor[m].alloc

Contains(s, m, p) ==
  LET mo == s.monitor[m]
  IN /\ p[1] >= mo.monitorX /\ p[1] < mo.monitorX + mo.monitorWidth
     /\ p[2] >= mo.monitorY /\ p[2] < mo.monitorY + mo.monitorHeight

Gone(s, c) ==
  /\ ~s.client[c].alloc
  /\ \A m \in Range(s.monitors) :
       /\ Count(ClientList(s, m), c) = 0
       /\ Count(StackList(s, m), c) = 0
       /\ s.monitor[m].selectedClient # c

C27_UnmanageRemovesClient ==
  (status = "running" /\ drag.mode = "idle") =>
    \A w \in Managed(State) :
      /\ \A t \in {destroynotify(State, w), unmapnotify(State, w, FALSE)} :
           t.status = "running" => Gone(t, w)
      /\ unmapnotify(State, w, TRUE) = State

\* of the three windows managed at startup the first was unmanaged
C27_Witness ==
  /\ status = "running" /\ budget = MaxSteps - 1
  /\ Managed(State) = 2..MaxClients


(***************************************************************************)
(* The error handler on its own: an X error of any core request and any    *)
(* core error code is reported to a program that has just started.         *)
(***************************************************************************)
MaxRequest == 127
MaxError == 17

RequestCodes == 1..MaxRequest
ErrorCodes == 1..MaxError

InitErrors ==
  \E request_code \in RequestCodes, error_code \in ErrorCodes :
    StartsWith(setup(<<Screen(1), Screen(2)>>, <<ScreenW \div 2, ScreenH \div 2>>), 1,
               [request_code |-> request_code, error_code |-> error_code,
                outcome |-> "pending"])

\* Xlib calls the handler; the default handler xerrorxlib may call exit
XError ==
  /\ status = "running" /\ xerr.outcome = "pending"
  /\ xerr' = [xerr EXCEPT !.outcome = xerror(xerr)]
  /\ \E exits \in BOOLEAN :
       status' = IF xerror(xerr) = "xerrorxlib" /\ exits THEN "exited" ELSE status
  /\ budget' = budget - 1
  /\ UNCHANGED <<client, monitor, monitors, selectedMonitor, screenWidth,
                 screenHeight, pointer, drag, motionMon, fsEntry>>

NextErrors == XError

SpecErrors == InitErrors /\ [][NextErrors]_vars

(***************************************************************************)
(* C28.  The error handler returns 0 and changes nothing for every error   *)
(* on the allow-list: any BadWindow; BadMatch on SetInputFocus or          *)
(* ConfigureWindow; BadDrawable on PolyText8, PolyFillRectangle,           *)
(* PolySegment or CopyArea; BadAccess on GrabButton or GrabKey.  Every     *)
(* other (request, error) pair goes to the default handler.                *)
(***************************************************************************)
AllowList ==
  {<<r, BadWindow>> : r \in RequestCodes}
    \cup {<<X_SetInputFocus, BadMatch>>, <<X_ConfigureWindow, BadMatch>>}
    \cup {<<r, BadDrawable>> :
            r \in {X_PolyText8, X_PolyFillRectangle, X_PolySegment, X_CopyArea}}
    \cup {<<X_GrabButton, BadAccess>>, <<X_GrabKey, BadAccess>>}

C28_ErrorAllowList ==
  [][XError =>
       IF <<xerr.request_code, xerr.error_code>> \in AllowList
       THEN xerr'.outcome = "ignored" /\ After = State
       ELSE xerr'.outcome = "xerrorxlib"]_vars

C28_Witness ==
  /\ xerr = [request_code |-> X_ConfigureWindow, error_code |-> BadMatch,
             outcome |-> "ignored"]
  /\ status = "running"


(***************************************************************************)
(* C29.  attachBelow(c) for a client c that is not yet in its monitor's    *)
(* client list: with a selected client that is not floating, c comes       *)
(* immediately after it; otherwise c comes immediately after the first     *)
(* client of the list that is not floating and shares a tag with c, or at  *)
(* the head when there is none.  The other clients keep their order and    *)
(* the list grows by exactly one.                                          *)
(***************************************************************************)
\* the state in which manage / sendmon call attachBelow: c has its monitor
\* and tags, and is in no list
Unattached(s, c, m, tags) ==
  [s EXCEPT !.client[c] = [NoClient EXCEPT !.alloc = TRUE, !.monitor = m,
                                           !.tags = tags]]

InsertAfter(q, at, c) ==
  LET i == CHOOSE k \in 1..Len(q) : q[k] = at
  IN SubSeq(q, 1, i) \o <<c>> \o SubSeq(q, i + 1, Len(q))

BelowSpot(s, q, m, c, tags) ==
  LET sel == s.monitor[m].selectedClient
      tagged == {k \in 1..Len(q) : ~s.client[q[k]].isFloating
                                   /\ s.client[q[k]].tags \cap tags # {}}
  IN IF sel # NULL /\ ~s.client[sel].isFloating THEN InsertAfter(q, sel, c)
     ELSE IF tagged = {} THEN <<c>> \o q
     ELSE InsertAfter(q, q[CHOOSE k \in tagged : \A j \in tagged : k <= j], c)

FirstShown(s, q, m) ==
  LET shown == {k \in 1..Len(q) : s.client[q[k]].tags \cap CurTags(s, m) # {}}
  IN IF shown = {} THEN NULL ELSE q[CHOOSE k \in shown : \A j \in shown : k <= j]

C30_DetachStackReselects ==
  status = "running" =>
    \A c \in Managed(State) :
      LET m == client[c].monitor
          q == StackList(State, m)
          t == detachStack(State, c)
          r == StackList(t, m)
      IN /\ t.status = "running"
         /\ Count(q, c) = 1 /\ r = Without(q, c)
         /\ t.monitor[m].selectedClient =
              IF monitor[m].selectedClient = c THEN FirstShown(State, r, m)
              ELSE monitor[m].selectedClient
         /\ \A o \in Range(monitors) \ {m} :
              /\ StackList(t, o) = StackList(State, o)
              /\ t.monitor[o].selectedClient = monitor[o].selectedClient

\* the selected client heads a stack whose next entry is hidden and whose
\* third entry is visible
C30_Witness ==
  /\ status = "running"
  /\ \E m \in Range(monitors) :
       LET q == StackList(State, m)
       IN /\ Len(q) >= 3 /\ q[1] = monitor[m].selectedClient
          /\ ~ISVISIBLE(State, q[2]) /\ ISVISIBLE(State, q[3])


(***************************************************************************)
(* dwindle on its own: one screen with 1..MaxTiled plain windows under the *)
(* default layout; clients ask for another border width (honoured by       *)
(* configurerequest for every managed client) and the master fraction is   *)
(* changed, which arranges the monitor again.                              *)
(***************************************************************************)
BorderRequests ==
  {[NoRequest EXCEPT !.mask = {"CWBorderWidth"}, !.border_width = b] :
     b \in {borderpx, 70}}

InitDwindle ==
  \E n \in 1..MaxTiled :
    Starts(scan(Roomy(setup(<<Screen(1)>>, <<ScreenW \div 2, ScreenH \div 2>>)),
                ScanWindows([i \in 1..n |-> Plain])), MaxSteps)

NextDwindle ==
  \/ \E w \in TiledWindows, ev \in BorderRequests : ConfigureRequest(w, ev)
  \/ \E delta \in {-mfactStep, mfactStep} : KeySetMFact(delta)

SpecDwindle == InitDwindle /\ [][NextDwindle]_vars

(***************************************************************************)
(* C31.  dwindle(): with one tiled client the client gets the whole window *)
(* area.  With two or more, the first client's cell starts at the window   *)
(* area's top-left and is window-area-width x master-fraction wide, and    *)
(* the second client's cell takes the rest of the width.  A split is made  *)
(* only while the remaining dimension it halves is, halved, above twice    *)
(* the border width; a client for which that test fails receives the       *)
(* rectangle computed last.                                                *)
(* As claimed: once the test has failed, every later client receives that  *)
(* rectangle (C31_LaterClientsReuseRectangle).  On the code: every later   *)
(* client does as long as no later client has a narrower border, the test  *)
(* being made with each client's own border width (C31_DwindleCells).      *)
(***************************************************************************)
\* the rectangle a client was given, from what resize stored
Cell(s, c) ==
  <<s.client[c].x, s.client[c].y, WIDTH(s, c), HEIGHT(s, c)>>

\* applysizehints left the proposed size as it was
Exact(s, c) == s.client[c].w > barHeight /\ s.client[c].h > barHeight

\* the client was given rectangle p (sizes below the bar height are raised)
Given(s, c, p) ==
  /\ s.client[c].x = p[1] /\ s.client[c].y = p[2]
  /\ s.client[c].w = MAX(barHeight, p[3] - 2 * s.client[c].borderWidth)
  /\ s.client[c].h = MAX(barHeight, p[4] - 2 * s.client[c].borderWidth)

\* the splits made for the clients before the k-th
Splits(s, q, k) ==
  Cardinality({j \in 1..(k - 1) : j = 1 \/ Cell(s, q[j]) # Cell(s, q[j - 1])})

\* the test of split number i on rectangle p for a border width
MaySplit(p, i, bw) ==
  IF i % 2 = 1 THEN p[4] \div 2 > 2 * bw ELSE p[3] \div 2 > 2 * bw

DwindleCase(m) ==
  /\ status = "running" /\ Arrange(State, m) = "dwindle"
  /\ Len(Tiled(State, m)) >= 1
  /\ \A k \in 1..Len(Tiled(State, m)) : Unhinted(client[Tiled(State, m)[k]])

FirstCells(t, m, q) ==
  LET mo == t.monitor[m]
      mw == FloatMulTrunc(mo.windowWidth, mo.masterFactor)
      bw(k) == t.client[q[k]].borderWidth
  IN /\ Len(q) = 1 => CoversWindowArea(t, m, q[1])
     /\ (Len(q) >= 2 /\ mo.windowWidth \div 2 > 2 * bw(1)
                     /\ mo.windowHeight \div 2 > 2 * bw(2)) =>
          /\ t.client[q[1]].x = mo.windowX /\ t.client[q[1]].y = mo.windowY
          /\ WIDTH(t, q[1]) = mw
          /\ t.client[q[2]].x = mo.windowX + mw
          /\ WIDTH(t, q[2]) = mo.windowWidth - mw

\* upto(k, j): the clients k..j that still reuse the rectangle
Reuse(t, q, upto(_, _)) ==
  \A k \in 2..Len(q) :
    (/\ \A j \in 1..(k - 1) : Exact(t, q[j])
     /\ MaySplit(<<0, 0, t.monitor[t.client[q[1]].monitor].windowWidth, 0>>, 0,
                 t.client[q[1]].borderWidth)
     /\ ~MaySplit(Cell(t, q[k - 1]), Splits(t, q, k), t.client[q[k]].borderWidth)) =>
      \A j \in k..Len(q) : upto(k, j) => Given(t, q[j], Cell(t, q[k - 1]))

C31_LaterClientsReuseRectangle ==
  \A m \in Range(monitors) :
    DwindleCase(m) =>
      LET t == dwindle(State, m)
          q == Tiled(State, m)
      IN FirstCells(t, m, q) /\ Reuse(t, q, LAMBDA k, j : TRUE)

C31_DwindleCells ==
  \A m \in Range(monitors) :
    DwindleCase(m) =>
      LET t == dwindle(State, m)
          q == Tiled(State, m)
      IN /\ FirstCells(t, m, q)
         /\ Reuse(t, q, LAMBDA k, j :
                   \A l \in k..j : t.client[q[l]].borderWidth >= t.client[q[k]].borderWidth)
         /\ \A k \in 2..Len(q) :
              (\A j \in 1..k : Exact(t, q[j])) =>
                (Cell(t, q[k]) # Cell(t, q[k - 1]) =>
                   MaySplit(Cell(t, q[k - 1]), Splits(t, q, k), t.client[q[k]].borderWidth))

\* dwindle has arranged six or more clients after the master fraction was
\* changed; the fifth has a wide border and was given the fourth's rectangle
C31_Witness ==
  /\ status = "running" /\ monitor[selectedMonitor].masterFactor # masterFactor
  /\ LET q == Tiled(State, selectedMonitor)
     IN /\ Len(q) >= 6
        /\ client[q[5]].borderWidth = 70 /\ client[q[4]].borderWidth = borderpx
        /\ Cell(State, q[5]) = Cell(State, q[4])
        /\ Cell(State, q[6]) = Cell(State, q[4])


(***************************************************************************)
(* C32.  movemouse and resizemouse enter no sub-loop and change no client  *)
(* geometry, floating flag, list membership, selection or selected monitor *)
(* when there is no selected client, when the selected client is           *)
(* fullscreen, or when the pointer grab fails.                             *)
(***************************************************************************)
C32_NoGrabNoDrag ==
  (status = "running" /\ drag.mode = "idle") =>
    \A grab \in BOOLEAN :
      (Sel(State) = NULL \/ client[Sel(State)].isFullscreen \/ ~grab) =>
        \A t \in {movemouse(State, grab), resizemouse(State, grab)} :
          /\ t.drag = Idle
          /\ t.client = client /\ t.monitor = monitor /\ t.monitors = monitors
          /\ t.selectedMonitor = selectedMonitor /\ t.status = "running"

\* a fullscreen client is selected
C32_Witness ==
  /\ status = "running" /\ drag.mode = "idle" /\ budget < MaxSteps
  /\ Sel(State) # NULL /\ client[Sel(State)].isFullscreen
  /\ fsEntry[Sel(State)].phase = "in"


(***************************************************************************)
(* C33.  Within a move or resize sub-loop a motion event is applied only   *)
(* if its timestamp is more than 1000/60 = 16 ms after the timestamp of    *)
(* the motion event applied last, so two applied motion events are more    *)
(* than 16 ms apart; a discarded motion event changes no client state.     *)
(***************************************************************************)
TimedMotions ==
  {[time |-> tm, x |-> p[1], y |-> p[2]] :
     tm \in {5, 16, 17, 20, 36, 37, 60}, p \in PointerSpots}

C33_MotionRateLimit ==
  (status = "running" /\ drag.mode # "idle") =>
    \A ev \in TimedMotions :
      ev.time >= drag.lasttime =>
        LET t == IF drag.mode = "move" THEN movemouseMotion(State, ev)
                 ELSE resizemouseMotion(State, ev)
        IN IF ev.time - drag.lasttime > 16
           THEN t.drag.lasttime = ev.time
           ELSE t = State

\* a motion event with timestamp 20 has moved the dragged client
C33_Witness ==
  /\ status = "running" /\ drag.mode = "move" /\ drag.lasttime = 20
  /\ client[drag.c].x # drag.ocx /\ budget = 0


(***************************************************************************)
(* C34.  For every proposed geometry and every combination of size hints   *)
(* (base, minimum, maximum sizes and resize increments, none negative) the *)
(* width and the height applysizehints computes are both at least 1.       *)
(***************************************************************************)
C34_SizesAtLeastOne ==
  \A c \in Managed(State), at \in ProposedSpots, size \in ProposedSizes,
     interact \in BOOLEAN :
    LET r == applysizehints(State, c, at[1], at[2], size[1], size[2], interact)
    IN r.w >= 1 /\ r.h >= 1


(***************************************************************************)
(* C35.  After every event handler has completed, the selected monitor's   *)
(* selected client is the first client of that monitor's stack that is     *)
(* visible under its current tag set, or none when no client of the        *)
(* monitor is visible.                                                     *)
(***************************************************************************)
C35_SelectionHeadsVisibleStack ==
  status = "running" =>
    LET q == StackList(State, selectedMonitor)
        shown == {k \in 1..Len(q) :
                    client[q[k]].tags \cap CurTags(State, selectedMonitor) # {}}
    IN /\ shown = {} => Sel(State) = NULL
       /\ shown # {} =>
            /\ Sel(State) # NULL
            /\ \E k \in shown : q[k] = Sel(State) /\ \A j \in shown : k <= j

\* the selected client was sent to another tag: it is hidden, second in the
\* stack, and the visible client that was behind it is selected
C35_Witness ==
  /\ status = "running" /\ budget < MaxSteps
  /\ LET q == StackList(State, selectedMonitor)
     IN /\ Len(q) >= 2 /\ Sel(State) = q[1]
        /\ ~ISVISIBLE(State, q[2]) /\ client[q[2]].tags = {1}


(***************************************************************************)
(* C36.  Whenever a monitor's bar is drawn and that monitor has at least   *)
(* one client visible under its current tag set, the monitor's selected    *)
(* client is not null, for every monitor, selected or not.  Every handler  *)
(* that changes a list ends by drawing the bars of the state it leaves     *)
(* (focus -> drawBars, arrange -> restack -> drawBar), so the state after  *)
(* a handler is a state drawBar has read.                                  *)
(***************************************************************************)
C36_DrawnMonitorHasSelection ==
  status = "running" =>
    \A i \in 1..Len(monitors) :
      LET m == monitors[i]
          q == ClientList(State, m)
      IN (Finite(q) /\ \E k \in 1..Len(q) :
            client[q[k]].tags \cap CurTags(State, m) # {})
           => monitor[m].selectedClient # NULL


(***************************************************************************)
(* Configure requests on two monitors whose layouts differ: the windows    *)
(* ask for a position or a size while the user changes the layout of the   *)
(* selected monitor, moves the selection between the monitors and sends    *)
(* clients across.                                                         *)
(***************************************************************************)
GeometryRequests == {ev \in ConfigureRequests : "CWBorderWidth" \notin ev.mask}

NextConfigure ==
  \/ \E w \in Windows, ev \in ConfigureRequests : ConfigureRequest(w, ev)
  \/ \E v \in {NULL, 3} : KeySetLayout(v)
  \/ \E dir \in {1} : KeyFocusMon(dir)
  \/ \E dir \in {1} : KeyTagMon(dir)
  \/ KeyToggleFloating

SpecConfigure == Init /\ [][NextConfigure]_vars

(***************************************************************************)
(* C37.  A configure request that does not change the border width, for a  *)
(* client that is not floating and whose own monitor has a tiling layout   *)
(* active, leaves the client's stored x, y, w and h as they were,          *)
(* whichever monitor is selected and whatever layout that monitor uses.    *)
(***************************************************************************)
C37_TiledGeometryKept ==
  status = "running" =>
    \A c \in Managed(State), ev \in GeometryRequests :
      (~client[c].isFloating /\ Arrange(State, client[c].monitor) # "NULL") =>
        LET t == configurerequest(State, c, ev)
        IN /\ t.client[c].x = client[c].x /\ t.client[c].y = client[c].y
           /\ t.client[c].w = client[c].w /\ t.client[c].h = client[c].h


(***************************************************************************)
(* C38.  With k >= 1 clients visible on the selected monitor and a         *)
(* selection that is not fullscreen, k consecutive focusStack(+1) calls    *)
(* select every visible client once, in client-list order and wrapping at  *)
(* the end, and return to the original selection; focusStack(+1) followed  *)
(* by focusStack(-1) restores the selection; focusStack never changes the  *)
(* order of the client list.                                               *)
(***************************************************************************)
\* the visible clients of the selected monitor, in client-list order
Shown(s) == SelectSeq(ClientList(s, s.selectedMonitor), LAMBDA c : ISVISIBLE(s, c))

RECURSIVE Times(_, _, _)
Times(s, dir, n) == IF n = 0 THEN s ELSE Times(focusStack(s, dir), dir, n - 1)

Cycles(s) ==
  LET v == Shown(s)
      k == Len(v)
  IN /\ \E p \in 1..k :
          /\ v[p] = Sel(s)
          /\ \A j \in 1..k : Sel(Times(s, 1, j)) = v[((p - 1 + j) % k) + 1]
     /\ Sel(focusStack(focusStack(s, 1), -1)) = Sel(s)
     /\ \A dir \in {-1, 1} :
          ClientList(focusStack(s, dir), s.selectedMonitor)
            = ClientList(s, s.selectedMonitor)

C38_FocusStackCycles ==
  (status = "running" /\ Sel(State) # NULL /\ ~client[Sel(State)].isFullscreen)
    => Cycles(State)

\* the same with no visible client of the selected monitor fullscreen
C38_FocusStackCyclesUnlocked ==
  (/\ status = "running" /\ Sel(State) # NULL
   /\ \A k \in 1..Len(Shown(State)) : ~client[Shown(State)[k]].isFullscreen)
    => Cycles(State)

\* three visible clients, the selection in the middle of the client list
C38_Witness ==
  /\ status = "running" /\ budget < MaxSteps
  /\ LET v == Shown(State)
     IN /\ Len(v) = 3 /\ Sel(State) = v[2]
        /\ \A k \in 1..3 : ~client[v[k]].isFullscreen


(***************************************************************************)
(* C39.  zoom never passes a null client to pop.  Under a tiling layout    *)
(* with no selected client the selected monitor has no visible tiled       *)
(* client, and zoom returns without touching a list.  Otherwise zoom moves *)
(* exactly one client, the selection, or the next tiled client when the    *)
(* selection already is the first tiled one, to the head of the client     *)
(* list and selects it.                                                    *)
(***************************************************************************)
\* c heads the client list of the selected monitor, the other clients keep
\* their order, and c is selected
Popped(s, t, c) ==
  LET q == ClientList(s, s.selectedMonitor)
  IN /\ c # NULL
     /\ ClientList(t, s.selectedMonitor) = <<c>> \o SelectSeq(q, LAMBDA d : d # c)
     /\ Sel(t) = c

FirstTiled(s) == nexttiled(s, s.monitor[s.selectedMonitor].clients)

\* the next tiled client after the selection, NULL when there is none
NextTiled(s) == IF Sel(s) = NULL THEN NULL ELSE nexttiled(s, s.client[Sel(s)].next)

C39_ZoomPopsOne ==
  status = "running" =>
    LET t == zoom(State)
        idle == Arrange(State, selectedMonitor) # "NULL" /\ Sel(State) = NULL
        c == IF Sel(State) = FirstTiled(State) /\ NextTiled(State) # NULL
             THEN NextTiled(State) ELSE Sel(State)
    IN /\ t.status = "running"
       /\ idle => (FirstTiled(State) = NULL /\ t = State)
       /\ ~idle => Popped(State, t, c)

\* the same, with the three other cases in which zoom returns at once: the
\* floating layout, a floating selection, a selection that is the only
\* visible tiled client
C39_ZoomPopsTiled ==
  status = "running" =>
    LET t == zoom(State)
        sel == Sel(State)
        idle == Arrange(State, selectedMonitor) # "NULL" /\ sel = NULL
        returns == \/ Arrange(State, selectedMonitor) = "NULL"
                   \/ sel # NULL /\ client[sel].isFloating
                   \/ sel = FirstTiled(State) /\ NextTiled(State) = NULL
        c == IF sel = FirstTiled(State) THEN NextTiled(State) ELSE sel
    IN /\ t.status = "running"
       /\ idle => FirstTiled(State) = NULL
       /\ returns => t = State
       /\ ~returns => Popped(State, t, c)

\* three clients: a floating one heads the list, the selection is the first
\* tiled client and another tiled client follows it
C39_Witness ==
  /\ status = "running" /\ budget < MaxSteps
  /\ LET q == ClientList(State, selectedMonitor)
     IN /\ Len(q) = 3 /\ client[q[1]].isFloating
        /\ Sel(State) = q[2] /\ FirstTiled(State) = q[2] /\ NextTiled(State) = q[3]


(***************************************************************************)
(* C40.  After every monitor reconciliation, one that removes monitors     *)
(* included, each surviving monitor's physical geometry (monitorX,         *)
(* monitorY, monitorWidth, monitorHeight) is the unique reported rectangle *)
(* at the same position in report order.                                   *)
(***************************************************************************)
C40_SurvivorsMatchReport ==
  status = "running" =>
    \A info \in Reports :
      LET unique == uniqueGeoms(info, 1, <<>>)
          t == updateGeometry(State, info)[1]
      IN t.status = "running" =>
           \A i \in 1..Len(t.monitors) :
             LET mo == t.monitor[t.monitors[i]]
             IN /\ i <= Len(unique)
                /\ mo.monitorX = unique[i].x_org /\ mo.monitorY = unique[i].y_org
                /\ mo.monitorWidth = unique[i].width
                /\ mo.monitorHeight = unique[i].height

=============================================================================
